---- MODULE Spec2Model ----
(***************************************************************************)
(* A model of sdk/python/kfp/components/_python_op.py: the lowering of a   *)
(* python callable to a component specification (signature analysis, the   *)
(* args template, the argument-parsing scaffold of the generated program)  *)
(* and the process-wide default base image.                                *)
(*                                                                         *)
(* Strings that the code splits, strips or joins on "_" (parameter names,  *)
(* input/output names, flags) are modelled as the sequence of their        *)
(* "_"-separated tokens: "x_file_path" is <<"x", "file", "path">>, and     *)
(* name + "_" + str(i) is Append(name, ToString(i)).  The flag text        *)
(* "--" + name.replace("_", "-") is determined by the token sequence, so a *)
(* flag is carried as that sequence.                                       *)
(***************************************************************************)
EXTENDS Integers, Sequences, FiniteSets, TLC

VARIABLES
    _default_base_image,  \* the module global (line 98)
    func,                 \* the callable handed to _func_to_component_spec
    options,              \* extra_code, packages_to_install, use_code_pickling
    base_image,           \* the call-site base_image argument
    hash_seed,            \* fixes the iteration order of str sets in this process
    result,               \* what the compilation returned or raised
    result2,              \* what the repeated compilation returned or raised
    last_set,             \* the last value given to set_default_base_image
    got,                  \* what get_default_base_image last returned
    sys_modules,          \* sys.modules of the compiling process
    sys_version_info,     \* sys.version_info of the compiling process
    run,                  \* one run of the generated program in a container
    at_start,             \* what a process of the caller's script starts with: the
                          \* __signature__ the callable is defined with, sys.modules
    pc                    \* "idle", "call" (a call is being made), "done", "done2", "ran"

vars == <<_default_base_image, func, options, base_image, hash_seed, result, result2,
          last_set, got, sys_modules, sys_version_info, run, at_start, pc>>

----------------------------------------------------------------------------
(* Bounds of the model *)

MaxParams == 2        \* parameters of a callable (Spec)
MaxNamedParams == 4   \* parameters of a callable (SpecNames)
MaxFields == 2        \* fields of a NamedTuple return annotation
MaxModules == 2       \* module names in modules_to_capture

----------------------------------------------------------------------------
(* Values *)

None == "None"
Empty == "empty"            \* inspect.Parameter.empty
Absent == <<>>              \* an attribute that was never set

InputPath == "InputPath"
InputTextFile == "InputTextFile"
InputBinaryFile == "InputBinaryFile"
OutputPath == "OutputPath"
OutputTextFile == "OutputTextFile"
OutputBinaryFile == "OutputBinaryFile"

InputStyles == {InputPath, InputTextFile, InputBinaryFile}
OutputStyles == {OutputPath, OutputTextFile, OutputBinaryFile}
PassingStyles == InputStyles \cup OutputStyles

single_output_name_const == <<"Output">>

\* The two errors of a compilation (lines 246 and 343)
DefaultForFileError == "ValueError: Default values for file inputs/outputs are not supported"
ImageConflictError == "ValueError: base_image conflicts with the decorator-specified base image"

Front(s) == SubSeq(s, 1, Len(s) - 1)

\* str.endswith("_" + suffix) on a tokenised name
endswith(name, suffix) == Len(name) >= 2 /\ name[Len(name)] = suffix

----------------------------------------------------------------------------
(* _naming._make_name_unique_by_adding_index(name, collection, "_") *)

RECURSIVE FirstFreeIndex(_, _, _)
FirstFreeIndex(name, collection, i) ==
    IF Append(name, ToString(i)) \notin collection THEN i
    ELSE FirstFreeIndex(name, collection, i + 1)

_make_name_unique_by_adding_index(name, collection) ==
    IF name \in collection
    THEN Append(name, ToString(FirstFreeIndex(name, collection, 2)))
    ELSE name

----------------------------------------------------------------------------
(* The type mapper *)

\* An annotation is [kind, name]: kind "empty" (no annotation), "falsy" (None and
\* other false values), "type" (a class, name its __name__), "forward" (name its
\* __forward_arg__), "other" (name its str()) or "raising" (an object of which
\* an operation of the mapper raises, name the operation: "bool", the truth
\* test of line 221, as of a numpy array; "eq", the comparison of line 221;
\* "str", the str() of line 230).  A key of a registry table is a type
\* object, [kind |-> "type", name], or a string, [kind |-> "str", name].
EmptyAnnotation == [kind |-> "empty", name |-> ""]

TypeKey(n) == [kind |-> "type", name |-> n]
StrKey(n) == [kind |-> "str", name |-> n]

\* _data_passing.type_to_type_name: the type objects of the registry, and
\* (line 232, "type_to_type_name can also have type name keys") the names of
\* these types as strings
type_to_type_name ==
    (TypeKey("str") :> "String") @@ (TypeKey("int") :> "Integer") @@
    (TypeKey("float") :> "Float") @@ (TypeKey("bool") :> "Boolean") @@
    (TypeKey("list") :> "JsonArray") @@ (TypeKey("dict") :> "JsonObject") @@
    (StrKey("str") :> "String") @@ (StrKey("int") :> "Integer") @@
    (StrKey("float") :> "Float") @@ (StrKey("bool") :> "Boolean") @@
    (StrKey("list") :> "JsonArray") @@ (StrKey("dict") :> "JsonObject")

\* What the analysis raises when an operation on an annotation raises
AnnotationError == "the exception that the annotation raises"

\* lines 221, 230: the truth test, the comparison with
\* inspect.Parameter.empty or the str() of the annotation raises
annotation_raises(annotation) == annotation.kind = "raising"

\* annotation_to_type_struct with str(annotation) for line 226
annotation_to_type_struct_str_of_type(annotation) ==
    IF annotation_raises(annotation) THEN AnnotationError
    ELSE IF annotation.kind \in {"empty", "falsy"} THEN None
    ELSE IF annotation.kind = "type" /\ TypeKey(annotation.name) \in DOMAIN type_to_type_name
         THEN type_to_type_name[TypeKey(annotation.name)]
    ELSE LET type_name == IF annotation.kind = "type"
                          THEN "<class '" \o annotation.name \o "'>"
                          ELSE annotation.name
         IN  IF StrKey(type_name) \in DOMAIN type_to_type_name
             THEN type_to_type_name[StrKey(type_name)]
             ELSE type_name

\* lines 220-234: the type name of an annotation, None, or AnnotationError
\* if the mapper raises
annotation_to_type_struct(annotation) ==
    IF annotation_raises(annotation) THEN AnnotationError
    ELSE IF annotation.kind \in {"empty", "falsy"} THEN None
    ELSE IF annotation.kind = "type" /\ TypeKey(annotation.name) \in DOMAIN type_to_type_name
         THEN type_to_type_name[TypeKey(annotation.name)]
    ELSE LET type_name == annotation.name
         IN  IF StrKey(type_name) \in DOMAIN type_to_type_name
             THEN type_to_type_name[StrKey(type_name)]
             ELSE type_name

----------------------------------------------------------------------------
(* _extract_component_interface *)

\* io_name_of that strips "_path" under any of the six markers
io_name_of_path_for_any_marker(parameter) ==
    LET n0 == parameter.name
        n1 == IF endswith(n0, "path") THEN Front(n0) ELSE n0
        n2 == IF endswith(n1, "file") THEN Front(n1) ELSE n1
    IN  IF parameter.marker \in PassingStyles THEN n2 ELSE n0

\* lines 241-255: the externally visible name of a parameter
io_name_of(parameter) ==
    LET n0 == parameter.name
        n1 == IF parameter.marker \in {InputPath, OutputPath} /\ endswith(n0, "path")
              THEN Front(n0) ELSE n0
        n2 == IF endswith(n1, "file") THEN Front(n1) ELSE n1
    IN  IF parameter.marker \in PassingStyles THEN n2 ELSE n0

\* raises_default_for_file with "is not None" for "is not inspect.Parameter.empty"
raises_default_for_file_unless_none(parameter) ==
    parameter.marker \in PassingStyles /\ parameter.default \notin {Empty, None}

\* line 245: a passing-style marker together with a default value
raises_default_for_file(parameter) ==
    parameter.marker \in PassingStyles /\ parameter.default # Empty

\* add_output_parameter without line 261 (the name is not recorded as used)
add_output_parameter_not_recorded(acc, parameter) ==
    LET io_name == _make_name_unique_by_adding_index(io_name_of(parameter), acc.output_names)
        output_spec == [name |-> io_name,
                        type |-> annotation_to_type_struct(parameter.type),
                        _passing_style |-> parameter.marker,
                        _parameter_name |-> parameter.name,
                        _return_tuple_field_name |-> Absent]
    IN  [acc EXCEPT !.outputs = Append(@, output_spec)]

\* lines 259-268
add_output_parameter(acc, parameter) ==
    LET io_name == _make_name_unique_by_adding_index(io_name_of(parameter), acc.output_names)
        output_spec == [name |-> io_name,
                        type |-> annotation_to_type_struct(parameter.type),
                        _passing_style |-> parameter.marker,
                        _parameter_name |-> parameter.name,
                        _return_tuple_field_name |-> Absent]
    IN  [acc EXCEPT !.output_names = @ \cup {io_name},
                    !.outputs = Append(@, output_spec)]

\* lines 270-282
add_input_parameter(acc, parameter) ==
    LET io_name == _make_name_unique_by_adding_index(io_name_of(parameter), acc.input_names)
        input_spec == [name |-> io_name,
                       type |-> annotation_to_type_struct(parameter.type),
                       optional |-> parameter.default # Empty,
                       default |-> IF parameter.default \notin {Empty, None}
                                   THEN "serialized" ELSE None,
                       _passing_style |-> parameter.marker,
                       _parameter_name |-> parameter.name]
    IN  [acc EXCEPT !.input_names = @ \cup {io_name},
                    !.inputs = Append(@, input_spec)]

\* lines 238-282: the loop over the parameters, from parameter i on; line 245
\* raises before line 256 maps the annotation
RECURSIVE analyze_parameters(_, _, _)
analyze_parameters(parameters, i, acc) ==
    IF i > Len(parameters) \/ acc.raised # None THEN acc
    ELSE LET parameter == parameters[i] IN
         IF raises_default_for_file(parameter)
         THEN [acc EXCEPT !.raised = DefaultForFileError]
         ELSE IF annotation_to_type_struct(parameter.type) = AnnotationError
         THEN [acc EXCEPT !.raised = AnnotationError]
         ELSE analyze_parameters(parameters, i + 1,
                IF parameter.marker \in OutputStyles
                THEN add_output_parameter(acc, parameter)
                ELSE add_input_parameter(acc, parameter))

\* lines 287-300: one output per field of a NamedTuple return annotation; the
\* type of a field is looked up only if the annotation has _field_types
RECURSIVE analyze_fields(_, _, _)
analyze_fields(return_ann, i, acc) ==
    LET fields == return_ann.fields IN
    IF i > Len(fields) THEN acc
    ELSE IF return_ann.has_field_types
            /\ annotation_to_type_struct(fields[i].type) = AnnotationError
    THEN [acc EXCEPT !.raised = AnnotationError]
    ELSE LET output_name == _make_name_unique_by_adding_index(fields[i].name, acc.output_names)
             output_spec == [name |-> output_name,
                             type |-> IF return_ann.has_field_types
                                      THEN annotation_to_type_struct(fields[i].type)
                                      ELSE None,
                             _passing_style |-> None,
                             _parameter_name |-> Absent,
                             _return_tuple_field_name |-> fields[i].name]
         IN  analyze_fields(return_ann, i + 1,
                [acc EXCEPT !.output_names = @ \cup {output_name},
                            !.outputs = Append(@, output_spec)])

\* lines 301-310: the single output of any other return annotation (the
\* comparison of line 301 or the mapper raises for a raising annotation)
add_single_output(return_ann, acc) ==
    IF annotation_to_type_struct(return_ann.type) = AnnotationError
    THEN [acc EXCEPT !.raised = AnnotationError] ELSE
    LET output_name == _make_name_unique_by_adding_index(single_output_name_const, acc.output_names)
        output_spec == [name |-> output_name,
                        type |-> annotation_to_type_struct(return_ann.type),
                        _passing_style |-> None,
                        _parameter_name |-> Absent,
                        _return_tuple_field_name |-> Absent]
    IN  [acc EXCEPT !.output_names = @ \cup {output_name},
                    !.outputs = Append(@, output_spec)]

\* analyze_return with "if" for the "elif" of line 301
analyze_return_fields_and_single(return_ann, acc) ==
    IF return_ann.kind = "tuple"
    THEN add_single_output(return_ann, analyze_fields(return_ann, 1, acc))
    ELSE IF return_ann.kind = "single" THEN add_single_output(return_ann, acc)
    ELSE acc

\* lines 285-310.  A return annotation is [kind, type, fields, has_field_types]:
\* kind "empty", "None", "single" (any other annotation, type its annotation) or
\* "tuple" (it has _fields); has_field_types says whether it has _field_types,
\* as a typing.NamedTuple has up to python 3.8 and not since, and as a
\* collections.namedtuple never has.
analyze_return(return_ann, acc) ==
    IF return_ann.kind = "tuple" THEN analyze_fields(return_ann, 1, acc)
    ELSE IF return_ann.kind = "single" THEN add_single_output(return_ann, acc)
    ELSE acc

_extract_component_interface(f) ==
    LET start == [raised |-> None, inputs |-> <<>>, outputs |-> <<>>,
                  input_names |-> {}, output_names |-> {}]
        after == analyze_parameters(f.params, 1, start)
    IN  IF after.raised # None THEN after
        ELSE analyze_return(f.ret, after)

----------------------------------------------------------------------------
(* _func_to_component_spec: the container image (lines 340-350) *)

\* The process-wide default is a plain string or a zero-argument factory:
\* [callable, value], value being the string or what the factory returns.
PlainImage(v) == [callable |-> FALSE, value |-> v]
ImageFactory(v) == [callable |-> TRUE, value |-> v]

\* resolve_base_image in which a call-site image silently overrides
resolve_base_image_call_site_wins(decorator_base_image, bi, default_image) ==
    IF bi # None THEN [raised |-> None, image |-> bi, calls |-> 0]
    ELSE IF decorator_base_image # None
    THEN [raised |-> None, image |-> decorator_base_image, calls |-> 0]
    ELSE [raised |-> None, image |-> default_image.value,
          calls |-> IF default_image.callable THEN 1 ELSE 0]

resolve_base_image(decorator_base_image, bi, default_image) ==
    IF decorator_base_image # None
    THEN IF bi # None /\ decorator_base_image # bi
         THEN [raised |-> ImageConflictError, image |-> None, calls |-> 0]
         ELSE [raised |-> None, image |-> decorator_base_image, calls |-> 0]
    ELSE IF bi = None
         THEN [raised |-> None, image |-> default_image.value,
               calls |-> IF default_image.callable THEN 1 ELSE 0]
         ELSE [raised |-> None, image |-> bi, calls |-> 0]

\* lines 348-350 with the factory's result stored in the global
default_image_cached(decorator_base_image, bi, default_image) ==
    IF decorator_base_image = None /\ bi = None /\ default_image.callable
    THEN PlainImage(default_image.value)
    ELSE default_image

\* lines 340-350: the global after the compilation (the function declares no
\* "global", the local base_image alone is assigned)
default_image_after(decorator_base_image, bi, default_image) == default_image

----------------------------------------------------------------------------
(* _func_to_component_spec: the args template (lines 421-464) *)

\* An entry of args: a literal string (a flag, name its text), a placeholder
\* on an input or output name, or an IfPlaceholder whose condition is
\* IsPresentPlaceholder(name).
Literal(text) == [k |-> "Literal", name |-> text, then_value |-> <<>>]
InputValuePlaceholder(n) == [k |-> "InputValue", name |-> n, then_value |-> <<>>]
InputPathPlaceholder(n) == [k |-> "InputPath", name |-> n, then_value |-> <<>>]
OutputPathPlaceholder(n) == [k |-> "OutputPath", name |-> n, then_value |-> <<>>]
IfPlaceholder(n, then_value) == [k |-> "If", name |-> n, then_value |-> then_value]

\* line 425: "--" + name.replace("_", "-"), as "--" and the tokens of the name
param_flag(name) == <<"--">> \o name

\* line 455: "----output-paths"
output_paths_flag == <<"--", "", "", "output", "paths">>

\* outputs_passed_through_func_return_tuple without the filter of line 421
outputs_passed_through_func_return_tuple_unfiltered(outputs) == outputs

\* line 421
outputs_passed_through_func_return_tuple(outputs) ==
    SelectSeq(outputs, LAMBDA output : output._passing_style = None)

\* line 422
file_outputs_passed_using_func_parameters(outputs) ==
    SelectSeq(outputs, LAMBDA output : output._passing_style # None)

\* input_is_required that ignores input.optional
input_is_required_always(input) == TRUE

\* line 426
input_is_required(input) == ~input.optional

\* lines 435-440
arguments_for_input(passing_style, name) ==
    IF passing_style \in InputStyles
    THEN <<Literal(param_flag(name)), InputPathPlaceholder(name)>>
    ELSE IF passing_style \in OutputStyles
    THEN <<Literal(param_flag(name)), OutputPathPlaceholder(name)>>
    ELSE <<Literal(param_flag(name)), InputValuePlaceholder(name)>>

\* lines 442-452
arguments_entry(is_required, passing_style, name) ==
    IF is_required THEN arguments_for_input(passing_style, name)
    ELSE <<IfPlaceholder(name, arguments_for_input(passing_style, name))>>

\* lines 424-452, the loop over the inputs
RECURSIVE input_arguments(_, _)
input_arguments(inputs, i) ==
    IF i > Len(inputs) THEN <<>>
    ELSE arguments_entry(input_is_required(inputs[i]), inputs[i]._passing_style, inputs[i].name)
         \o input_arguments(inputs, i + 1)

\* lines 424-452, the loop over the file outputs (an OutputSpec is required)
RECURSIVE file_output_arguments(_, _)
file_output_arguments(outputs, i) ==
    IF i > Len(outputs) THEN <<>>
    ELSE arguments_entry(TRUE, outputs[i]._passing_style, outputs[i].name)
         \o file_output_arguments(outputs, i + 1)

\* line 464: the outputs whose placeholders follow the shared flag
output_paths_outputs(outputs) == outputs

\* output_paths_nargs counting the return-style outputs only
output_paths_nargs_return_style_only(outputs) ==
    Len(outputs_passed_through_func_return_tuple(outputs))

\* line 460
output_paths_nargs(outputs) == Len(outputs)

RECURSIVE output_path_placeholders(_, _)
output_path_placeholders(outputs, i) ==
    IF i > Len(outputs) THEN <<>>
    ELSE <<OutputPathPlaceholder(outputs[i].name)>> \o output_path_placeholders(outputs, i + 1)

\* lines 454-464
output_paths_arguments(outputs) ==
    IF outputs_passed_through_func_return_tuple(outputs) # <<>>
    THEN <<Literal(output_paths_flag)>>
         \o output_path_placeholders(output_paths_outputs(outputs), 1)
    ELSE <<>>

\* build_arguments that handles the file outputs before the inputs
build_arguments_outputs_first(inputs, outputs) ==
    file_output_arguments(file_outputs_passed_using_func_parameters(outputs), 1)
    \o input_arguments(inputs, 1)
    \o output_paths_arguments(outputs)

\* lines 423-464
build_arguments(inputs, outputs) ==
    input_arguments(inputs, 1)
    \o file_output_arguments(file_outputs_passed_using_func_parameters(outputs), 1)
    \o output_paths_arguments(outputs)

----------------------------------------------------------------------------
(* _capture_function_code_using_cloudpickle (lines 118-186) *)

\* tuple(sys.version_info), as major, minor and the rest (micro)
Version(major, minor, micro) == [major |-> major, minor |-> minor, micro |-> micro]

NoVersion == Version(0, 0, 0)

\* sys.modules and old_modules are dicts from module names to module objects:
\* a function on Modules whose value NotLoaded stands for a missing key.
Modules == {"__main__", "helpers"}

NotLoaded == "not loaded"
LoadedModule == "the module object loaded before the call"
ImportedModule == "a module object imported during cloudpickle.dumps"

NoModules == [m \in Modules |-> NotLoaded]

\* The attribute __signature__ of the callable: missing, None or a Signature
NoAttribute == "no attribute"
Signature == "Signature"

PicklingError == "PicklingError"

\* What cloudpickle.dumps does in a call: it raises or not, and it imports
\* some modules (a module that is in sys.modules is not imported again)
DumpsOutcome(raises, imports) == [raises |-> raises, imports |-> imports]
NoDumps == DumpsOutcome(FALSE, {})

\* lines 124-125
modules_to_capture_or_default(f, modules_to_capture) ==
    IF modules_to_capture.is_none THEN <<f.__module__>> ELSE modules_to_capture.names

\* lines 131-133: the loop over modules_to_capture, from module i on
RECURSIVE pop_modules(_, _, _)
pop_modules(modules_to_capture, i, acc) ==
    IF i > Len(modules_to_capture) THEN acc
    ELSE LET module_name == modules_to_capture[i] IN
         pop_modules(modules_to_capture, i + 1,
            IF acc.sys_modules[module_name] # NotLoaded
            THEN [old_modules |-> [acc.old_modules EXCEPT
                                      ![module_name] = acc.sys_modules[module_name]],
                  sys_modules |-> [acc.sys_modules EXCEPT ![module_name] = NotLoaded]]
            ELSE acc)

\* line 138: cloudpickle.dumps imports modules
modules_after_dumps(modules, dumps) ==
    [m \in Modules |-> IF m \in dumps.imports /\ modules[m] = NotLoaded
                       THEN ImportedModule ELSE modules[m]]

\* line 140: sys.modules.update(old_modules)
modules_updated(modules, old_modules) ==
    [m \in Modules |-> IF old_modules[m] # NotLoaded THEN old_modules[m] ELSE modules[m]]

\* line 129: getattr(func, '__signature__', None)
getattr_signature(f) == IF f.__signature__ = NoAttribute THEN None ELSE f.__signature__

\* lines 136-137, 141-142: the attribute is deleted if present, and set again
\* if old_sig is true (None is false)
restore_signature(old_sig) == IF old_sig # None THEN old_sig ELSE NoAttribute

\* lines 118-186: whether the call raised, and the process state it leaves
_capture_function_code_using_cloudpickle(f, modules_to_capture, modules, dumps) ==
    LET popped == pop_modules(modules_to_capture_or_default(f, modules_to_capture), 1,
                              [old_modules |-> NoModules, sys_modules |-> modules])
        old_sig == getattr_signature(f)
    IN  [raised |-> IF dumps.raises THEN PicklingError ELSE None,
         sys_modules |-> modules_updated(modules_after_dumps(popped.sys_modules, dumps),
                                         popped.old_modules),
         __signature__ |-> restore_signature(old_sig)]

----------------------------------------------------------------------------
(* _func_to_component_spec: the generated program (lines 367-518) *)

\* A block of the generated program: a piece of text, an add_argument line of
\* the scaffold (flag, dest, type, required or nargs filled in), the
\* _output_serializers list (code its expressions) or the loader of a pickled
\* callable (pickler_python_version filled in).
Block(kind, text) ==
    [block |-> kind, text |-> text, flag |-> <<>>, dest |-> <<>>, type |-> "",
     required |-> FALSE, nargs |-> 0, code |-> <<>>,
     pickler_python_version |-> NoVersion]

\* lines 427-432
add_argument_line(flag, dest, type, is_required) ==
    [Block("add_argument", "_parser.add_argument") EXCEPT
        !.flag = flag, !.dest = dest, !.type = type, !.required = is_required]

\* line 456
output_param_var == <<"", "output", "paths">>

\* lines 457-461
output_paths_line(nargs) ==
    [Block("add_argument_output_paths", "_parser.add_argument") EXCEPT
        !.flag = output_paths_flag, !.dest = output_param_var,
        !.type = "str", !.nargs = nargs]

\* _data_passing.type_name_to_deserializer: type name -> <<code, definition>>
type_name_to_deserializer ==
    ("String" :> <<"str", "">>) @@ ("Integer" :> <<"int", "">>) @@
    ("Float" :> <<"float", "">>) @@
    ("Boolean" :> <<"_deserialize_bool", "def _deserialize_bool">>) @@
    ("JsonArray" :> <<"json.loads", "import json">>) @@
    ("JsonObject" :> <<"json.loads", "import json">>)

\* _data_passing.type_name_to_serializer: type name -> the serializer's __name__
type_name_to_serializer ==
    ("String" :> "_serialize_str") @@ ("Integer" :> "_serialize_int") @@
    ("Float" :> "_serialize_float") @@ ("Boolean" :> "_serialize_bool") @@
    ("JsonArray" :> "_serialize_json") @@ ("JsonObject" :> "_serialize_json")

\* lines 368-374: the deserializer code
get_deserializer(type_name) ==
    IF type_name \in DOMAIN type_name_to_deserializer
    THEN type_name_to_deserializer[type_name][1] ELSE "str"

\* lines 368-374: what the call adds to definitions
deserializer_definitions(type_name) ==
    IF type_name \in DOMAIN type_name_to_deserializer
       /\ type_name_to_deserializer[type_name][2] # ""
    THEN <<type_name_to_deserializer[type_name][2]>> ELSE <<>>

\* lines 403-412: the serializer's name
get_serializer(type_name) ==
    IF type_name \in DOMAIN type_name_to_serializer
    THEN type_name_to_serializer[type_name] ELSE "str"

\* lines 403-412: what the call adds to definitions (the registered
\* serializers are functions of the package, not of the standard library)
serializer_definitions(type_name) ==
    IF type_name \in DOMAIN type_name_to_serializer
    THEN <<"def " \o type_name_to_serializer[type_name]>> ELSE <<>>

\* lines 377-401: the argparse type of a file-style parameter ("" for None)
get_argparse_type_for_input_file(passing_style) ==
    CASE passing_style = InputPath -> "str"
      [] passing_style = InputTextFile -> "argparse.FileType('rt')"
      [] passing_style = InputBinaryFile -> "argparse.FileType('rb')"
      [] passing_style = OutputPath -> "_make_parent_dirs_and_return_path"
      [] passing_style = OutputTextFile -> "_parent_dirs_maker_that_returns_open_file('wt')"
      [] passing_style = OutputBinaryFile -> "_parent_dirs_maker_that_returns_open_file('wb')"
      [] OTHER -> ""

\* lines 377-401: what the call adds to pre_func_definitions, in the order
\* of the adds
input_file_pre_func_definitions(passing_style) ==
    IF passing_style \notin PassingStyles THEN <<>>
    ELSE <<"class " \o passing_style>>
         \o (IF passing_style = OutputPath
             THEN <<"def _make_parent_dirs_and_return_path">> ELSE <<>>)
         \o (IF passing_style \in {OutputTextFile, OutputBinaryFile}
             THEN <<"def _parent_dirs_maker_that_returns_open_file">> ELSE <<>>)

\* line 430
param_type(passing_style, type_name) ==
    IF get_argparse_type_for_input_file(passing_style) # ""
    THEN get_argparse_type_for_input_file(passing_style)
    ELSE get_deserializer(type_name)

\* lines 424-433, the loop over the inputs
RECURSIVE input_lines(_, _)
input_lines(inputs, i) ==
    IF i > Len(inputs) THEN <<>>
    ELSE <<add_argument_line(param_flag(inputs[i].name), inputs[i]._parameter_name,
                             param_type(inputs[i]._passing_style, inputs[i].type),
                             input_is_required(inputs[i]))>>
         \o input_lines(inputs, i + 1)

\* lines 424-433, the loop over the file outputs
RECURSIVE file_output_lines(_, _)
file_output_lines(outputs, i) ==
    IF i > Len(outputs) THEN <<>>
    ELSE <<add_argument_line(param_flag(outputs[i].name), outputs[i]._parameter_name,
                             param_type(outputs[i]._passing_style, outputs[i].type),
                             TRUE)>>
         \o file_output_lines(outputs, i + 1)

\* A set of str is modelled by its members in the order in which they were
\* first added.  a_set.add(text) for each of the texts, from text i on
RECURSIVE set_add(_, _, _)
set_add(a_set, texts, i) ==
    IF i > Len(texts) THEN a_set
    ELSE set_add(IF \E k \in DOMAIN a_set : a_set[k] = texts[i]
                 THEN a_set ELSE Append(a_set, texts[i]),
                 texts, i + 1)

\* line 430: what the loop over the inputs and the file-style outputs adds to
\* definitions, from descriptor i on
RECURSIVE collect_deserializer_definitions(_, _, _)
collect_deserializer_definitions(descriptors, i, definitions) ==
    IF i > Len(descriptors) THEN definitions
    ELSE collect_deserializer_definitions(descriptors, i + 1,
            IF descriptors[i]._passing_style = None
            THEN set_add(definitions, deserializer_definitions(descriptors[i].type), 1)
            ELSE definitions)

\* line 468: what the loop over the return-style outputs adds to definitions
RECURSIVE collect_serializer_definitions(_, _, _)
collect_serializer_definitions(outputs, i, definitions) ==
    IF i > Len(outputs) THEN definitions
    ELSE collect_serializer_definitions(outputs, i + 1,
            set_add(definitions, serializer_definitions(outputs[i].type), 1))

\* lines 367-374, 403-412, 430, 468: the set definitions after both loops
collect_definitions(inputs, outputs) ==
    collect_serializer_definitions(
        outputs_passed_through_func_return_tuple(outputs), 1,
        collect_deserializer_definitions(
            inputs \o file_outputs_passed_using_func_parameters(outputs), 1, <<>>))

\* lines 376-401, 430: the set pre_func_definitions after the loop, from
\* descriptor i on
RECURSIVE collect_pre_func_definitions_from(_, _, _)
collect_pre_func_definitions_from(descriptors, i, pre_func_definitions) ==
    IF i > Len(descriptors) THEN pre_func_definitions
    ELSE collect_pre_func_definitions_from(descriptors, i + 1,
            set_add(pre_func_definitions,
                    input_file_pre_func_definitions(descriptors[i]._passing_style), 1))

collect_pre_func_definitions(inputs, outputs) ==
    collect_pre_func_definitions_from(
        inputs \o file_outputs_passed_using_func_parameters(outputs), 1, <<>>)

\* The texts a set of the compilation can hold, in a reference order
AllDefinitions ==
    <<"class InputPath", "class InputTextFile", "class InputBinaryFile",
      "class OutputPath", "class OutputTextFile", "class OutputBinaryFile",
      "def _make_parent_dirs_and_return_path",
      "def _parent_dirs_maker_that_returns_open_file",
      "def _deserialize_bool", "import json",
      "def _serialize_str", "def _serialize_int", "def _serialize_float",
      "def _serialize_bool", "def _serialize_json">>

\* The members of a set
members(a_set) == {a_set[k] : k \in DOMAIN a_set}

\* The orders of the members of a set
RECURSIVE Orders(_)
Orders(texts) ==
    IF texts = {} THEN {<<>>}
    ELSE UNION {{<<text>> \o order : order \in Orders(texts \ {text})} : text \in texts}

\* The iteration order of a set of str is fixed by the hashes of its members,
\* which the interpreter salts per process, and by the order in which the
\* members were added (members whose hashes collide are placed in the order
\* of the adds).  A seed stands for the salt: it gives, for some sets (each
\* with the order of its adds), the order in which the process lists them,
\* any order being possible; every other set it lists in the order of
\* AllDefinitions.  ReferenceSeed is the salt that lists every set so;
\* HashSeeds(sets) are the salts that differ on the given sets.
ReferenceSeed == [a_set \in {} |-> <<>>]

HashSeeds(sets) ==
    {seed \in [sets -> UNION {Orders(members(a_set)) : a_set \in sets}] :
        \A a_set \in sets : seed[a_set] \in Orders(members(a_set))}

\* lines 471, 473: list(a_set)
list_of_set(a_set, seed) ==
    IF a_set \in DOMAIN seed THEN seed[a_set]
    ELSE SelectSeq(AllDefinitions, LAMBDA text : text \in members(a_set))

RECURSIVE text_blocks(_, _, _)
text_blocks(kind, texts, i) ==
    IF i > Len(texts) THEN <<>>
    ELSE <<Block(kind, texts[i])>> \o text_blocks(kind, texts, i + 1)

\* lines 466-469
RECURSIVE output_serialization_expression_strings(_, _)
output_serialization_expression_strings(outputs, i) ==
    IF i > Len(outputs) THEN <<>>
    ELSE <<get_serializer(outputs[i].type)>>
         \o output_serialization_expression_strings(outputs, i + 1)

\* lines 189-209 and 144-186: the text that defines the callable
capture_function_code(f, opts, version) ==
    IF opts.use_code_pickling
    THEN <<[Block("func_code", "pickle loader") EXCEPT !.pickler_python_version = version]>>
    ELSE (IF f.ret.kind = "tuple"
          THEN <<Block("func_code", "from typing import NamedTuple")>> ELSE <<>>)
         \o <<Block("func_code", "source copy")>>

\* lines 414-420, 433, 462, 473-478
arg_parse_code_lines(inputs, outputs, seed) ==
    text_blocks("definition", list_of_set(collect_definitions(inputs, outputs), seed), 1)
    \o <<Block("scaffold", "import argparse"),
         Block("scaffold", "_parser = argparse.ArgumentParser")>>
    \o input_lines(inputs, 1)
    \o file_output_lines(file_outputs_passed_using_func_parameters(outputs), 1)
    \o (IF outputs_passed_through_func_return_tuple(outputs) # <<>>
        THEN <<output_paths_line(output_paths_nargs(outputs))>> ELSE <<>>)
    \o <<Block("scaffold", "_parsed_args = vars(_parser.parse_args())"),
         Block("scaffold", "_output_files = _parsed_args.pop")>>

\* full_source with the preamble put first
full_source_extra_code_first(f, opts, inputs, outputs, seed, version) ==
    (IF opts.extra_code # "" THEN <<Block("extra_code", opts.extra_code)>> ELSE <<>>)
    \o text_blocks("pre_func_definition",
                   list_of_set(collect_pre_func_definitions(inputs, outputs), seed), 1)
    \o capture_function_code(f, opts, version)
    \o arg_parse_code_lines(inputs, outputs, seed)
    \o <<Block("invocation", "_outputs = func(**_parsed_args)"),
         Block("normalization", "_outputs = [_outputs]"),
         [Block("output_serializers", "_output_serializers") EXCEPT
            !.code = output_serialization_expression_strings(
                        outputs_passed_through_func_return_tuple(outputs), 1)],
         Block("epilogue", "for idx, output_file in enumerate(_output_files)")>>

\* lines 471-514
full_source(f, opts, inputs, outputs, seed, version) ==
    text_blocks("pre_func_definition",
                list_of_set(collect_pre_func_definitions(inputs, outputs), seed), 1)
    \o (IF opts.extra_code # "" THEN <<Block("extra_code", opts.extra_code)>> ELSE <<>>)
    \o capture_function_code(f, opts, version)
    \o arg_parse_code_lines(inputs, outputs, seed)
    \o <<Block("invocation", "_outputs = func(**_parsed_args)"),
         Block("normalization", "_outputs = [_outputs]"),
         [Block("output_serializers", "_output_serializers") EXCEPT
            !.code = output_serialization_expression_strings(
                        outputs_passed_through_func_return_tuple(outputs), 1)],
         Block("epilogue", "for idx, output_file in enumerate(_output_files)")>>

----------------------------------------------------------------------------
(* _func_to_component_spec (lines 328-533) *)

NoSpec == [inputs |-> <<>>, outputs |-> <<>>, image |-> None,
           command |-> [preinstall |-> <<>>, full_source |-> <<>>], args |-> <<>>]

NothingReturned == [raised |-> None, returned |-> FALSE, calls |-> 0, spec |-> NoSpec]

Raised(error, calls) == [raised |-> error, returned |-> FALSE, calls |-> calls, spec |-> NoSpec]

\* The process as a call that does not reach line 361 leaves it
Untouched(f, modules) == [sys_modules |-> modules, __signature__ |-> f.__signature__]

\* lines 328-533: what the call returns or raises (outcome) and the process
\* state it leaves (process), in a process whose global, hash salt, version
\* and sys.modules are given, dumps being what cloudpickle.dumps does
_func_to_component_spec(f, opts, bi, default_image, seed, version, modules, dumps) ==
    LET image == resolve_base_image(f.image, bi, default_image)
        interface == _extract_component_interface(f)
        captured == _capture_function_code_using_cloudpickle(f, opts.modules_to_capture,
                                                             modules, dumps)
    IN  IF image.raised # None
        THEN [outcome |-> Raised(image.raised, image.calls), process |-> Untouched(f, modules)]
        ELSE IF interface.raised # None
        THEN [outcome |-> Raised(interface.raised, image.calls),
              process |-> Untouched(f, modules)]
        ELSE IF opts.use_code_pickling /\ captured.raised # None
        THEN [outcome |-> Raised(captured.raised, image.calls),
              process |-> [sys_modules |-> captured.sys_modules,
                           __signature__ |-> captured.__signature__]]
        ELSE [outcome |->
                [raised |-> None, returned |-> TRUE, calls |-> image.calls,
                 spec |-> [inputs |-> interface.inputs,
                           outputs |-> interface.outputs,
                           image |-> image.image,
                           command |-> [preinstall |-> opts.packages_to_install,
                                        full_source |-> full_source(f, opts, interface.inputs,
                                                                    interface.outputs, seed,
                                                                    version)],
                           args |-> build_arguments(interface.inputs, interface.outputs)]],
              process |-> IF opts.use_code_pickling
                          THEN [sys_modules |-> captured.sys_modules,
                                __signature__ |-> captured.__signature__]
                          ELSE Untouched(f, modules)]

----------------------------------------------------------------------------
(* The generated program, run in a container (lines 144-179 and 480-506) *)

\* A python value: kind "int" (an int, v its text), "str" (v its text),
\* "list", "tuple" or "bytes" (items its elements) or "dict" (keys[i] the
\* key of items[i], itself a value).
Value(kind, v, items, keys) == [kind |-> kind, v |-> v, items |-> items, keys |-> keys]
Scalar(v) == Value("int", v, <<>>, <<>>)
Str(v) == Value("str", v, <<>>, <<>>)
List(items) == Value("list", "", items, <<>>)
Tuple(items) == Value("tuple", "", items, <<>>)
Bytes(items) == Value("bytes", "", items, <<>>)
Dict(keys, items) == Value("dict", "", items, keys)
NoValue == Value("no value", "", <<>>, <<>>)

\* The errors of a run
RuntimeError == "RuntimeError: Incompatible python versions"
ArgumentError == "argparse.ArgumentError: conflicting option string"
IndexError == "IndexError"
KeyError == "KeyError"
TypeError == "TypeError: missing a required argument"
SystemExit == "SystemExit: 2"

\* lines 166-170 without line 168
incompatible_python_versions_minor_ignored(current_python_version, pickler_python_version) ==
    \/ current_python_version.major # pickler_python_version.major
    \/ /\ current_python_version.major = 3
       /\ (pickler_python_version.minor < 6) # (current_python_version.minor < 6)

\* lines 166-170: the condition of the raise
incompatible_python_versions(current_python_version, pickler_python_version) ==
    \/ current_python_version.major # pickler_python_version.major
    \/ current_python_version.minor < pickler_python_version.minor
    \/ /\ current_python_version.major = 3
       /\ (pickler_python_version.minor < 6) # (current_python_version.minor < 6)

\* lines 164-179: the loader of a pickled callable, run by current_python_version
run_loader(current_python_version, pickler_python_version) ==
    IF incompatible_python_versions(current_python_version, pickler_python_version)
    THEN [raised |-> RuntimeError, warned |-> FALSE, bound |-> FALSE]
    ELSE [raised |-> None,
          warned |-> current_python_version # pickler_python_version,
          bound |-> TRUE]

\* lines 189-209: the copied source defines the callable
run_source_copy == [raised |-> None, warned |-> FALSE, bound |-> TRUE]

\* {func_code} of line 486: the blocks of the program that define the callable
run_func_code(program, current_python_version) ==
    LET loaders == SelectSeq(program, LAMBDA b : b.block = "func_code"
                                                  /\ b.text = "pickle loader")
    IN  IF loaders # <<>>
        THEN run_loader(current_python_version, loaders[1].pickler_python_version)
        ELSE run_source_copy

\* lines 427, 457: the add_argument calls of the program; argparse refuses an
\* option string that an earlier call of the parser has defined, or that the
\* parser defines itself (line 415: ArgumentParser adds --help)
add_argument_calls(program) ==
    SelectSeq(program, LAMBDA b : b.block \in {"add_argument", "add_argument_output_paths"})

help_flag == <<"--", "help">>

run_add_arguments(program) ==
    LET calls == add_argument_calls(program) IN
    IF \/ \E i, j \in DOMAIN calls : i < j /\ calls[i].flag = calls[j].flag
       \/ \E i \in DOMAIN calls : calls[i].flag = help_flag
    THEN ArgumentError ELSE None

\* The path the binder puts in the place of OutputPathPlaceholder(name)
output_path(name) == name

\* The value the binder puts in the place of the placeholder of an input
input_argument(name) == <<"the argument of">> \o name

\* The value the binder puts in the place of a placeholder
argument(placeholder) ==
    IF placeholder.k = "OutputPath" THEN output_path(placeholder.name)
    ELSE input_argument(placeholder.name)

\* The command line of the run: args as the binder resolves them when it is
\* given the required inputs only, so that an IfPlaceholder, whose condition
\* is IsPresentPlaceholder of an optional input, yields nothing.  The flags
\* are literals; the placeholders stand for the values that replace them.
command_line(args) == SelectSeq(args, LAMBDA a : a.k # "If")

\* The flag of an input or output whose name is "": param_flag gives "--",
\* which parse_args takes for the end of the options
end_of_options == <<"--", "">>

\* line 475: the places of the command line up to which parse_args reads
\* options: all of it, or what comes before the first "--"
options_end(args) ==
    LET cl == command_line(args)
        ends == {p \in DOMAIN cl : cl[p] = Literal(end_of_options)}
    IN  IF ends = {} THEN Len(cl) + 1
        ELSE CHOOSE p \in ends : \A q \in ends : p <= q

\* line 475: parse_args exits with status 2 if the command line has "--":
\* the option of that flag, a required one, gets no value, and what follows
\* "--" is taken for positional arguments, of which the parser has none
parse_exits(args) == options_end(args) <= Len(command_line(args))

\* What the type of an option makes of its argument (lines 379-399 and 370):
\* str and _make_parent_dirs_and_return_path give a str, FileType and
\* _parent_dirs_maker_that_returns_open_file an open stream, a deserializer
\* the deserialized value
converted_kind(type) ==
    IF type \in {"str", "_make_parent_dirs_and_return_path"} THEN "str"
    ELSE IF type \in {"argparse.FileType('rt')", "argparse.FileType('rb')",
                     "_parent_dirs_maker_that_returns_open_file('wt')",
                     "_parent_dirs_maker_that_returns_open_file('wb')"}
    THEN "stream"
    ELSE "deserialized"

\* The types that open a file for writing, which makes the file, empty
writing_types == {"_parent_dirs_maker_that_returns_open_file('wt')",
                  "_parent_dirs_maker_that_returns_open_file('wb')"}

\* line 475: the paths at which parse_args opens a stream for writing: the
\* value of every single-valued option of such a type that parse_args reads
opened_paths(program, args) ==
    LET cl == command_line(args) IN
    {output_path(cl[p + 1].name) :
        p \in {q \in 1 .. Len(cl) - 1 :
                 /\ q < options_end(args)
                 /\ cl[q].k = "Literal"
                 /\ cl[q + 1].k = "OutputPath"
                 /\ \E i \in DOMAIN program :
                       /\ program[i].block = "add_argument"
                       /\ program[i].flag = cl[q].name
                       /\ program[i].type \in writing_types}}

\* The single-valued options of the program whose dest is _output_paths: a
\* parameter of that name (lines 427-429)
parameter_options_of_output_param_var(program) ==
    SelectSeq(program, LAMBDA b : b.block = "add_argument" /\ b.dest = output_param_var)

\* What line 477 binds to _output_files: kind "list" (items the strings of
\* the list), "str" (items[1] the argument that is the string), "stream" (a
\* stream opened on the file at items[1]) or "deserialized" (the value
\* deserialized from the argument items[1])
Popped(kind, items) == [kind |-> kind, items |-> items]
Unbound == Popped("unbound", <<>>)

\* line 477: what the parser holds under the dest _output_paths.  If the
\* program has the multi-valued option, the list of the values that follow
\* its flag on the command line (the flag is the last one, so it is the
\* option whose values the dest keeps).  If not, and a parameter is named
\* _output_paths and its option is on the command line, what the type of the
\* option made of the argument.  [] otherwise.
_output_files(program, args) ==
    LET cl == command_line(args)
        multi_valued == SelectSeq(program, LAMBDA b : b.block = "add_argument_output_paths")
        flags == {p \in DOMAIN cl :
                    /\ multi_valued # <<>>
                    /\ cl[p] = Literal(multi_valued[1].flag)
                    /\ \A q \in p + 1 .. Len(cl) : cl[q].k = "OutputPath"}
        of_parameter == parameter_options_of_output_param_var(program)
        given == {p \in 1 .. Len(cl) - 1 :
                    /\ of_parameter # <<>>
                    /\ cl[p] = Literal(of_parameter[1].flag)}
    IN  IF flags # {}
        THEN LET p == CHOOSE q \in flags : TRUE
             IN  Popped("list", [i \in 1 .. Len(cl) - p |-> output_path(cl[p + i].name)])
        ELSE IF given # {}
        THEN Popped(converted_kind(of_parameter[1].type),
                    <<argument(cl[(CHOOSE p \in given : TRUE) + 1])>>)
        ELSE Popped("list", <<>>)

\* line 490: func(**_parsed_args) lacks the argument that line 477 popped; the
\* call raises if the parameter of that name has no default value
missing_argument(program) ==
    \E i \in DOMAIN parameter_options_of_output_param_var(program) :
        parameter_options_of_output_param_var(program)[i].required

\* lines 495-497
_output_serializers(program) ==
    SelectSeq(program, LAMBDA b : b.block = "output_serializers")[1].code

\* A file: what wrote it last, and the value it wrote
File(serializer, value) == [serializer |-> serializer, value |-> value]
NoFile == File("no file", NoValue)
EmptyFile == File("", NoValue)
WrittenByCallable == File("the callable", NoValue)

\* The styles whose parameter is a stream that the parser opened (lines
\* 394-399) and that the program never closes
StreamStyles == {OutputTextFile, OutputBinaryFile}

\* The style of the file-style output at a path, None if there is none
style_at(outputs, path) ==
    IF \E i \in DOMAIN outputs : /\ output_path(outputs[i].name) = path
                                 /\ outputs[i]._passing_style # None
    THEN outputs[CHOOSE i \in DOMAIN outputs :
                    /\ output_path(outputs[i].name) = path
                    /\ outputs[i]._passing_style # None]._passing_style
    ELSE None

\* line 475: the files of the outputs when parse_args has returned or
\* exited: the streams it opened made their files, empty
files_after_parse(program, outputs, args) ==
    [path \in {output_path(outputs[i].name) : i \in DOMAIN outputs} |->
        IF path \in opened_paths(program, args) THEN EmptyFile ELSE NoFile]

\* The files, with the paths that the loop of line 500 is to open
with_paths(files, paths) ==
    [path \in DOMAIN files \cup paths |->
        IF path \in DOMAIN files THEN files[path] ELSE NoFile]

\* line 490: the callable writes the data of its file-style outputs.  It
\* opens, writes and closes the file of an OutputPath; what it writes to a
\* stream is in the file after the call only if it flushes (or closes) the
\* stream, and stays in the buffer of the stream otherwise.
files_after_call(outputs, flushes) ==
    [path \in {output_path(outputs[i].name) : i \in DOMAIN outputs} |->
        IF style_at(outputs, path) = None THEN NoFile
        ELSE IF style_at(outputs, path) \in StreamStyles /\ ~flushes THEN EmptyFile
        ELSE WrittenByCallable]

\* The paths of the streams that hold unwritten data when the callable returns
buffered_streams(outputs, flushes) ==
    {path \in {output_path(outputs[i].name) : i \in DOMAIN outputs} :
        style_at(outputs, path) \in StreamStyles /\ ~flushes}

\* A file over whose start the callable's buffered data is written
flushed_over(file) ==
    IF file.value = NoValue THEN WrittenByCallable
    ELSE File("the callable over " \o file.serializer, file.value)

\* The interpreter exits, after the last statement or after an error: the
\* streams that are still open are flushed, each from the start of its file
files_at_exit(files, buffered) ==
    [path \in DOMAIN files |->
        IF path \in buffered THEN flushed_over(files[path]) ELSE files[path]]

\* hasattr(_outputs, '__getitem__')
has_getitem(value) == value.kind \in {"str", "list", "tuple", "bytes", "dict"}

\* lines 492-493
normalize(_outputs) ==
    IF ~has_getitem(_outputs) \/ _outputs.kind = "str" THEN List(<<_outputs>>) ELSE _outputs

\* _outputs[idx] of line 506: the item at idx of a list, tuple or bytes, the
\* item of a dict whose key is equal to the int idx
getitem(_outputs, idx) ==
    IF _outputs.kind = "dict"
    THEN IF \E i \in DOMAIN _outputs.keys : _outputs.keys[i] = Scalar(ToString(idx))
         THEN [raised |-> None,
               value |-> _outputs.items[CHOOSE i \in DOMAIN _outputs.keys :
                                            _outputs.keys[i] = Scalar(ToString(idx))]]
         ELSE [raised |-> KeyError, value |-> NoValue]
    ELSE IF idx < Len(_outputs.items)
         THEN [raised |-> None, value |-> _outputs.items[idx + 1]]
         ELSE [raised |-> IndexError, value |-> NoValue]

\* lines 500-506: the loop over the list _output_files, from index idx on;
\* open() empties the file before the subscripts of line 506 are evaluated
RECURSIVE write_outputs(_, _, _, _, _)
write_outputs(output_files, serializers, _outputs, idx, files) ==
    IF idx >= Len(output_files) THEN [raised |-> None, files |-> files]
    ELSE LET output_file == output_files[idx + 1]
             opened == [files EXCEPT ![output_file] = EmptyFile]
             item == getitem(_outputs, idx)
         IN  IF idx >= Len(serializers) THEN [raised |-> IndexError, files |-> opened]
             ELSE IF item.raised # None THEN [raised |-> item.raised, files |-> opened]
             ELSE write_outputs(output_files, serializers, _outputs, idx + 1,
                                [opened EXCEPT ![output_file] =
                                    File(serializers[idx + 1], item.value)])

NotRun(current_python_version, returned, flushes) ==
    [current_python_version |-> current_python_version, returned |-> returned,
     flushes |-> flushes, raised |-> None, warned |-> FALSE, bound |-> FALSE, called |-> FALSE,
     _outputs |-> NoValue, _output_files |-> Unbound, files |-> <<>>]

\* lines 480-506: the program of a specification, run by the interpreter
\* current_python_version on the command line that the binder makes of args
\* for the required inputs, the callable returning the value returned and
\* flushing its streams or not; files is what the files hold when the
\* process has ended.  The statements run in the order of the text: the
\* definition of the callable (line 486), the add_argument calls, parse_args
\* (line 475), the pop (line 477), the call (line 490) and the loop (line
\* 500), which iterates over a list, since a parameter whose argument was
\* popped makes the call raise.
run_program(spec, current_python_version, returned, flushes) ==
    LET program == spec.command.full_source
        start == NotRun(current_python_version, returned, flushes)
        func_code == run_func_code(program, current_python_version)
        parsed == [start EXCEPT !.warned = func_code.warned, !.bound = func_code.bound,
                                !.files = files_after_parse(program, spec.outputs, spec.args)]
        output_files == _output_files(program, spec.args)
        normalized == normalize(returned)
        written == write_outputs(output_files.items, _output_serializers(program),
                                 normalized, 0,
                                 with_paths(files_after_call(spec.outputs, flushes),
                                            {output_files.items[i] :
                                                i \in DOMAIN output_files.items}))
    IN  IF func_code.raised # None THEN [start EXCEPT !.raised = func_code.raised]
        ELSE IF run_add_arguments(program) # None
        THEN [start EXCEPT !.raised = run_add_arguments(program),
                           !.warned = func_code.warned, !.bound = func_code.bound]
        ELSE IF parse_exits(spec.args) THEN [parsed EXCEPT !.raised = SystemExit]
        ELSE IF missing_argument(program)
        THEN [parsed EXCEPT !.raised = TypeError, !._output_files = output_files]
        ELSE [parsed EXCEPT !.raised = written.raised,
                            !.called = TRUE,
                            !._outputs = normalized,
                            !._output_files = output_files,
                            !.files = files_at_exit(written.files,
                                                    buffered_streams(spec.outputs, flushes))]

----------------------------------------------------------------------------
(* The callables and the calls of the model *)

Name(a) == <<a>>
Name2(a, b) == <<a, b>>

Parameter(name, marker, default) ==
    [name |-> name, marker |-> marker, type |-> EmptyAnnotation, default |-> default]

ReturnAnnotation(kind, fields) ==
    [kind |-> kind, type |-> EmptyAnnotation, fields |-> fields, has_field_types |-> FALSE]

\* A callable: its signature, _component_base_image, __module__, __signature__
Function(params, ret, image) ==
    [params |-> params, ret |-> ret, image |-> image,
     __module__ |-> "__main__", __signature__ |-> NoAttribute]

\* modules_to_capture: None, or a list of module names
ModulesToCapture(names) == [is_none |-> FALSE, names |-> names]
NoModulesToCapture == [is_none |-> TRUE, names |-> <<>>]

DefaultOptions ==
    [extra_code |-> "", packages_to_install |-> <<>>, modules_to_capture |-> NoModulesToCapture,
     use_code_pickling |-> FALSE]

\* The sequences of exactly n different members of S
RECURSIVE DistinctSeqs(_, _)
DistinctSeqs(S, n) ==
    IF n = 0 THEN {<<>>}
    ELSE UNION {{Append(s, x) : x \in S \ {s[i] : i \in DOMAIN s}} :
                s \in DistinctSeqs(S, n - 1)}

\* The sequences of at most n different members of S
DistinctSeqsUpTo(S, n) == UNION {DistinctSeqs(S, k) : k \in 0 .. n}

\* The parameter lists python accepts: no two parameters of the same name
ParameterLists(names, markers, defaults, n) ==
    UNION {{[i \in DOMAIN ns |-> [name |-> ns[i], marker |-> ms[i],
                                  type |-> EmptyAnnotation, default |-> ds[i]]] :
                ms \in [DOMAIN ns -> markers], ds \in [DOMAIN ns -> defaults]} :
           ns \in DistinctSeqsUpTo(names, n)}

\* The parameter lists whose parameters carry type annotations
TypedParameterLists(names, markers, annotations, n) ==
    UNION {{[i \in DOMAIN ns |-> [name |-> ns[i], marker |-> ms[i],
                                  type |-> ts[i], default |-> Empty]] :
                ms \in [DOMAIN ns -> markers], ts \in [DOMAIN ns -> annotations]} :
           ns \in DistinctSeqsUpTo(names, n)}

\* The return annotations that carry types: an annotation, or a NamedTuple
\* of typed fields
TypedReturnAnnotations(annotations, field_names, n) ==
    {[ReturnAnnotation("single", <<>>) EXCEPT !.type = t] : t \in annotations}
    \cup {[ReturnAnnotation("tuple", fs) EXCEPT !.has_field_types = has_field_types] :
            fs \in UNION {{[i \in DOMAIN ns |-> [name |-> ns[i], type |-> ts[i]]] :
                              ts \in [DOMAIN ns -> annotations]} :
                         ns \in DistinctSeqsUpTo(field_names, n)},
            has_field_types \in BOOLEAN}

\* The return annotations: none, None, another annotation, a NamedTuple
ReturnAnnotations(kinds, field_names, n) ==
    {ReturnAnnotation(k, <<>>) : k \in kinds}
    \cup {ReturnAnnotation("tuple", fs) :
            fs \in {[i \in DOMAIN ns |-> [name |-> ns[i], type |-> EmptyAnnotation]] :
                        ns \in DistinctSeqsUpTo(field_names, n)}}

Markers == {None} \cup PassingStyles
Defaults == {Empty, None, "value"}

\* line 98
ModuleDefaultImage == PlainImage("tensorflow/tensorflow:1.13.2-py3")

----------------------------------------------------------------------------
(* The operations *)

\* _func_to_component_spec(func, base_image=base_image, ...) runs to its end
\* What cloudpickle.dumps may do in a call with these options
DumpsOutcomes(opts) ==
    IF opts.use_code_pickling
    THEN {DumpsOutcome(raises, imports) : raises \in BOOLEAN, imports \in SUBSET Modules}
    ELSE {NoDumps}

CompileCall ==
    /\ pc = "call"
    /\ \E dumps \in DumpsOutcomes(options) :
          LET call == _func_to_component_spec(func, options, base_image, _default_base_image,
                                              hash_seed, sys_version_info, sys_modules, dumps)
          IN  /\ result' = call.outcome
              /\ sys_modules' = call.process.sys_modules
              /\ func' = [func EXCEPT !.__signature__ = call.process.__signature__]
    /\ _default_base_image' = default_image_after(func.image, base_image, _default_base_image)
    /\ pc' = "done"
    /\ UNCHANGED <<options, base_image, hash_seed, result2, last_set, got,
                   sys_version_info, run, at_start>>

\* The caller makes its next call
Call(f, o, bi) ==
    /\ pc \in {"idle", "done"}
    /\ func' = f
    /\ options' = o
    /\ base_image' = bi
    /\ result' = NothingReturned
    /\ pc' = "call"
    /\ at_start' = [at_start EXCEPT !.__signature__ = f.__signature__]
    /\ UNCHANGED <<_default_base_image, hash_seed, result2, last_set, got,
                   sys_modules, sys_version_info, run>>

\* lines 105-110
set_default_base_image(image_or_factory) ==
    /\ pc \in {"idle", "done"}
    /\ _default_base_image' = image_or_factory
    /\ last_set' = image_or_factory
    /\ UNCHANGED <<func, options, base_image, hash_seed, result, result2, got,
                   sys_modules, sys_version_info, run, pc, at_start>>

\* lines 101-102
get_default_base_image ==
    /\ pc \in {"idle", "done"}
    /\ got' = _default_base_image
    /\ UNCHANGED <<_default_base_image, func, options, base_image, hash_seed,
                   result, result2, last_set, sys_modules, sys_version_info, run, pc, at_start>>

\* The same call is made again in the same process
Recompile ==
    /\ pc = "done"
    /\ \E dumps \in DumpsOutcomes(options) :
          LET call == _func_to_component_spec(func, options, base_image, _default_base_image,
                                              hash_seed, sys_version_info, sys_modules, dumps)
          IN  /\ result2' = call.outcome
              /\ sys_modules' = call.process.sys_modules
              /\ func' = [func EXCEPT !.__signature__ = call.process.__signature__]
    /\ _default_base_image' = default_image_after(func.image, base_image, _default_base_image)
    /\ pc' = "done2"
    /\ UNCHANGED <<options, base_image, hash_seed, result, last_set, got,
                   sys_version_info, run, at_start>>

\* The program runs again: a new interpreter process salts its hashes anew,
\* which fixes the order in which it lists the sets that a compilation of
\* the callable builds, loads the modules of the script and defines the
\* callable as the script does, and loads the module, which sets the global
\* (line 98)
RestartProcess ==
    /\ pc = "done"
    /\ LET interface == _extract_component_interface(func)
       IN  \E seed \in HashSeeds({collect_pre_func_definitions(interface.inputs,
                                                                interface.outputs),
                                  collect_definitions(interface.inputs,
                                                      interface.outputs)}) :
              hash_seed' = seed
    /\ _default_base_image' = ModuleDefaultImage
    /\ last_set' = ModuleDefaultImage
    /\ func' = [func EXCEPT !.__signature__ = at_start.__signature__]
    /\ sys_modules' = at_start.sys_modules
    /\ UNCHANGED <<options, base_image, result, result2, got,
                   sys_version_info, run, pc, at_start>>

\* The generated program of the returned specification runs in a container
RunProgram(current_python_version, returned, flushes) ==
    /\ pc = "done"
    /\ result.returned
    /\ run' = run_program(result.spec, current_python_version, returned, flushes)
    /\ pc' = "ran"
    /\ UNCHANGED <<_default_base_image, func, options, base_image, hash_seed, result, result2,
                   last_set, got, sys_modules, sys_version_info, at_start>>

\* The interpreter of the model's processes, and the modules it has loaded
PythonVersion == Version(3, 7, 0)
LoadedModules == [m \in Modules |-> IF m = "__main__" THEN LoadedModule ELSE NotLoaded]

\* No program has run
NoRun == "no run"

\* A process in which the module was loaded and a call is about to be made
ProcessInit(functions, option_sets, images, seeds, versions, module_tables) ==
    /\ _default_base_image = ModuleDefaultImage
    /\ last_set = ModuleDefaultImage
    /\ got = ModuleDefaultImage
    /\ func \in functions
    /\ options \in option_sets
    /\ base_image \in images
    /\ hash_seed \in seeds
    /\ sys_modules \in module_tables
    /\ at_start = [__signature__ |-> func.__signature__, sys_modules |-> sys_modules]
    /\ sys_version_info \in versions
    /\ run = NoRun
    /\ result = NothingReturned
    /\ result2 = NothingReturned
    /\ pc = "call"

CallInit(functions, images, seeds) ==
    ProcessInit(functions, {DefaultOptions}, images, seeds, {PythonVersion}, {LoadedModules})

----------------------------------------------------------------------------
(* Spec: one compilation of a callable of at most MaxParams parameters, of  *)
(* any passing style, with or without default values                       *)

Functions(max_params, max_fields) ==
    {Function(ps, r, None) :
        ps \in ParameterLists({Name("x"), Name2("x", "path"), Name("y")},
                              Markers, Defaults, max_params),
        r \in ReturnAnnotations({"empty", "None", "single"},
                               {Name("x"), Name("y")}, max_fields)}

Init ==
    CallInit(Functions(MaxParams, MaxFields), {None}, {ReferenceSeed})

Next == CompileCall

Spec == Init /\ [][Next]_vars

----------------------------------------------------------------------------
(* SpecNames: one compilation of a callable of at most MaxNamedParams       *)
(* parameters without default values, whose names end in the suffixes the  *)
(* analysis strips, look like the names the suffixing rule makes or         *)
(* normalize to the default label Output                                    *)

NamedFunctions(max_params, max_fields) ==
    {Function(ps, r, None) :
        ps \in ParameterLists({Name("x"), Name2("x", "file"), Name2("x", "2"),
                               <<"x", "2", "path">>},
                              {None, InputPath, InputTextFile, OutputPath, OutputTextFile},
                              {Empty}, max_params),
        r \in ReturnAnnotations({"empty", "single"}, {Name("x"), Name2("x", "2")},
                               max_fields)}
    \cup {Function(ps, r, None) :
            ps \in ParameterLists({Name("Output"), Name2("Output", "path")},
                                  {None, OutputPath}, {Empty}, max_params),
            r \in ReturnAnnotations({"single"}, {Name("Output")}, max_fields)}

InitNames ==
    CallInit(NamedFunctions(MaxNamedParams, MaxFields), {None},
             {ReferenceSeed})

SpecNames == InitNames /\ [][Next]_vars

----------------------------------------------------------------------------
(* SpecImage: calls of set_default_base_image, get_default_base_image and   *)
(* _func_to_component_spec in any order, on callables with and without an   *)
(* attached image, some of which do not compile                             *)

Images == {None, "image-a", "image-b"}

DefaultImages == {ModuleDefaultImage, PlainImage("image-a"), ImageFactory("image-f")}

ImageFunctions ==
    {Function(ps, ReturnAnnotation("empty", <<>>), image) :
        ps \in {<<>>, <<Parameter(Name("x"), InputPath, None)>>},
        image \in Images}

InitImage ==
    /\ _default_base_image = ModuleDefaultImage
    /\ last_set = ModuleDefaultImage
    /\ got = ModuleDefaultImage
    /\ func = Function(<<>>, ReturnAnnotation("empty", <<>>), None)
    /\ options = DefaultOptions
    /\ base_image = None
    /\ hash_seed = ReferenceSeed
    /\ sys_modules = LoadedModules
    /\ at_start = [__signature__ |-> NoAttribute, sys_modules |-> LoadedModules]
    /\ sys_version_info = PythonVersion
    /\ run = NoRun
    /\ result = NothingReturned
    /\ result2 = NothingReturned
    /\ pc = "idle"

NextImage ==
    \/ \E image_or_factory \in DefaultImages : set_default_base_image(image_or_factory)
    \/ get_default_base_image
    \/ \E f \in ImageFunctions, bi \in Images : Call(f, DefaultOptions, bi)
    \/ CompileCall

SpecImage == InitImage /\ [][NextImage]_vars

----------------------------------------------------------------------------
(* SpecTwice: a callable is compiled, and compiled again with the same      *)
(* options, in the same process or when the program runs again              *)

TwiceFunctions(max_params) ==
    {Function(ps, r, None) :
        ps \in ParameterLists({Name("x"), Name("y")}, Markers, {Empty}, max_params),
        r \in ReturnAnnotations({"empty", "single"}, {}, 0)}

InitTwice == CallInit(TwiceFunctions(MaxParams), {None}, {ReferenceSeed})

NextTwice == CompileCall \/ RestartProcess \/ Recompile

SpecTwice == InitTwice /\ [][NextTwice]_vars

----------------------------------------------------------------------------
(* SpecCapture: one compilation that captures the callable with cloudpickle, *)
(* in a process that has loaded some of the modules, of a callable with or  *)
(* without a __signature__, the modules to capture being given or not       *)

CaptureFunctions ==
    {[Function(ps, ReturnAnnotation("empty", <<>>), None) EXCEPT
        !.__module__ = module, !.__signature__ = signature] :
        ps \in {<<>>, <<Parameter(Name("x"), InputPath, None)>>},
        module \in Modules,
        signature \in {NoAttribute, None, Signature}}

ModuleLists(n) == UNION {[1 .. k -> Modules] : k \in 0 .. n}

CaptureOptions(max_modules) ==
    {[DefaultOptions EXCEPT !.use_code_pickling = TRUE, !.modules_to_capture = to_capture] :
        to_capture \in {NoModulesToCapture}
                       \cup {ModulesToCapture(names) : names \in ModuleLists(max_modules)}}

ModuleTables == [Modules -> {NotLoaded, LoadedModule}]

InitCapture ==
    ProcessInit(CaptureFunctions, CaptureOptions(MaxModules), {None},
                {ReferenceSeed}, {PythonVersion}, ModuleTables)

SpecCapture == InitCapture /\ [][Next]_vars

----------------------------------------------------------------------------
(* SpecSuffix: one compilation of a callable whose parameter names end in   *)
(* "_path" and "_file", once or twice, in either order                      *)

SuffixNames ==
    {Name("x"), Name2("x", "path"), Name2("x", "file"), <<"x", "file", "path">>,
     <<"x", "path", "file">>, <<"x", "path", "path">>, <<"x", "file", "file">>}

SuffixFunctions(max_params) ==
    {Function(ps, ReturnAnnotation("empty", <<>>), None) :
        ps \in ParameterLists(SuffixNames, Markers, {Empty}, max_params)}

InitSuffix == CallInit(SuffixFunctions(MaxParams), {None}, {ReferenceSeed})

SpecSuffix == InitSuffix /\ [][Next]_vars

----------------------------------------------------------------------------
(* SpecTyped: one compilation of a callable whose parameters and return     *)
(* annotation carry type annotations of every kind, with or without a       *)
(* preamble, the callable copied or pickled                                 *)

Annotation(kind, name) == [kind |-> kind, name |-> name]

Annotations ==
    {EmptyAnnotation, Annotation("falsy", ""),
     Annotation("type", "str"), Annotation("type", "bool"), Annotation("type", "list"),
     Annotation("type", "MyClass"), Annotation("forward", "MyType"),
     Annotation("forward", "list"),
     Annotation("other", "typing.List[int]"), Annotation("other", "JsonArray"),
     Annotation("raising", "bool"), Annotation("raising", "str")}

ReturnTypes == {Annotation("type", "bool"), Annotation("type", "list"),
                Annotation("type", "MyClass"), Annotation("raising", "eq")}

TypedFunctions(max_params, max_fields) ==
    {Function(ps, r, None) :
        ps \in TypedParameterLists({Name("x"), Name("y")}, {None, InputPath, OutputPath},
                                   Annotations, max_params),
        r \in {ReturnAnnotation("empty", <<>>)}
                \cup TypedReturnAnnotations(ReturnTypes, {Name("z")}, max_fields)}

TypedOptions ==
    {DefaultOptions,
     [DefaultOptions EXCEPT !.extra_code = "preamble"],
     [DefaultOptions EXCEPT !.extra_code = "preamble", !.use_code_pickling = TRUE]}

InitTyped ==
    ProcessInit(TypedFunctions(MaxParams, MaxFields), TypedOptions, {None},
                {ReferenceSeed}, {PythonVersion}, {LoadedModules})

SpecTyped == InitTyped /\ [][Next]_vars

----------------------------------------------------------------------------
(* SpecLoader: a callable is captured with cloudpickle by one interpreter   *)
(* and the generated program is run by another                             *)

Versions == {Version(major, minor, micro) : major \in {3, 4}, minor \in 5 .. 7, micro \in 0 .. 1}

LoaderFunctions ==
    {Function(<<>>, ReturnAnnotation("empty", <<>>), None),
     Function(<<Parameter(Name("x"), None, Empty)>>, ReturnAnnotation("single", <<>>), None)}

InitLoader ==
    ProcessInit(LoaderFunctions, {[DefaultOptions EXCEPT !.use_code_pickling = TRUE]}, {None},
                {ReferenceSeed}, Versions, {LoadedModules})

NextLoader ==
    \/ CompileCall
    \/ \E current_python_version \in Versions :
          RunProgram(current_python_version, Scalar("7"), TRUE)

SpecLoader == InitLoader /\ [][NextLoader]_vars

----------------------------------------------------------------------------
(* SpecRun: a callable is compiled and the generated program is run, the    *)
(* callable returning a scalar, a string or an indexable value and flushing *)
(* the streams it wrote to or not; a parameter may be named _path, help,    *)
(* _output_paths or __output_paths                                          *)

RunFunctions(max_params, max_fields) ==
    {Function(ps, r, None) :
        ps \in ParameterLists({Name("x"), Name2("x", "path"), Name2("", "path"), Name("help"),
                               <<"", "output", "paths">>, <<"", "", "output", "paths">>},
                              {None, OutputPath, OutputTextFile}, {Empty}, max_params),
        r \in ReturnAnnotations({"empty", "single"}, {Name("x"), Name("z")}, max_fields)}

ReturnValues ==
    {Scalar("7"), Str("ab"), Bytes(<<Scalar("97")>>),
     List(<<>>), List(<<Scalar("1"), Scalar("2")>>),
     Tuple(<<Scalar("1")>>), Tuple(<<Scalar("1"), Str("ab")>>),
     Dict(<<Str("a")>>, <<Scalar("1")>>), Dict(<<Str("0")>>, <<Scalar("11")>>),
     Dict(<<Scalar("0")>>, <<Scalar("11")>>)}

InitRun == CallInit(RunFunctions(MaxParams, MaxFields), {None}, {ReferenceSeed})

NextRun ==
    \/ CompileCall
    \/ \E returned \in ReturnValues, flushes \in BOOLEAN :
          RunProgram(PythonVersion, returned, flushes)

SpecRun == InitRun /\ [][NextRun]_vars

----------------------------------------------------------------------------
(* What the claims speak of *)

Returned == pc = "done" /\ result.returned

PairwiseDistinctNames(descriptors) ==
    \A i, j \in DOMAIN descriptors : i # j => descriptors[i].name # descriptors[j].name

IsOutputParameter(parameter) == parameter.marker \in OutputStyles

SameNamespace(p, q) == IsOutputParameter(p) <=> IsOutputParameter(q)

\* The name of the descriptor made from parameter j of func
DescriptorName(j) ==
    LET parameter == func.params[j]
        descriptors == IF IsOutputParameter(parameter)
                       THEN result.spec.outputs ELSE result.spec.inputs
        d == CHOOSE i \in DOMAIN descriptors :
                descriptors[i]._parameter_name = parameter.name
    IN  descriptors[d].name

\* The names given, in the namespace of parameter j, to the parameters before j
NamesBefore(j) ==
    {DescriptorName(i) : i \in {h \in 1 .. j - 1 : SameNamespace(func.params[h], func.params[j])}}

\* name was renamed from io_name by the suffixing rule, given the names in use
RenamedBySuffix(name, io_name, used) ==
    \E k \in 2 .. Cardinality(used) + 2 :
        /\ name = Append(io_name, ToString(k))
        /\ name \notin used
        /\ \A h \in 2 .. k - 1 : Append(io_name, ToString(h)) \in used

\* Parameters i < j of one namespace normalize to the same name, and no
\* parameter of that namespace before i does
FirstAndLaterOfSameName(i, j) ==
    /\ i < j
    /\ SameNamespace(func.params[i], func.params[j])
    /\ io_name_of(func.params[i]) = io_name_of(func.params[j])
    /\ \A h \in 1 .. i - 1 :
          SameNamespace(func.params[h], func.params[i])
              => io_name_of(func.params[h]) # io_name_of(func.params[i])

\* C1 as stated: the names of the inputs are pairwise distinct and so are the
\* names of the outputs, and of two parameters that normalize to the same
\* name the first keeps that name and the later one is renamed by the
\* suffixing rule.
C1_FirstKeepsName ==
    Returned =>
        /\ PairwiseDistinctNames(result.spec.inputs)
        /\ PairwiseDistinctNames(result.spec.outputs)
        /\ \A i, j \in DOMAIN func.params :
              FirstAndLaterOfSameName(i, j) =>
                  /\ DescriptorName(i) = io_name_of(func.params[i])
                  /\ RenamedBySuffix(DescriptorName(j), io_name_of(func.params[j]),
                                     NamesBefore(j))

\* C1, amended: the names of the inputs are pairwise distinct and so are the
\* names of the outputs (parameters, NamedTuple fields and the single
\* "Output" alike); a parameter keeps its normalized name exactly when no
\* earlier descriptor of its namespace has that name, and is otherwise renamed
\* by the suffixing rule; so of two parameters that normalize to the same name
\* the later one is always renamed, and the first keeps the name unless an
\* earlier renaming already produced it.
C1_NamesUnique ==
    Returned =>
        /\ PairwiseDistinctNames(result.spec.inputs)
        /\ PairwiseDistinctNames(result.spec.outputs)
        /\ \A j \in DOMAIN func.params :
              IF io_name_of(func.params[j]) \in NamesBefore(j)
              THEN RenamedBySuffix(DescriptorName(j), io_name_of(func.params[j]),
                                   NamesBefore(j))
              ELSE DescriptorName(j) = io_name_of(func.params[j])
        /\ \A i, j \in DOMAIN func.params :
              FirstAndLaterOfSameName(i, j) =>
                  /\ DescriptorName(j) # io_name_of(func.params[j])
                  /\ (io_name_of(func.params[i]) \notin NamesBefore(i)
                        => DescriptorName(i) = io_name_of(func.params[i]))

\* C1 witness: two output parameters normalized to the same name, the first
\* kept it, the second and a NamedTuple field of that name were renamed
C1_Witness ==
    /\ Returned
    /\ \E i, j \in DOMAIN func.params :
          /\ FirstAndLaterOfSameName(i, j)
          /\ IsOutputParameter(func.params[i])
          /\ DescriptorName(i) = io_name_of(func.params[i])
          /\ DescriptorName(j) = Append(io_name_of(func.params[j]), "2")
          /\ \E o \in DOMAIN result.spec.outputs :
                /\ result.spec.outputs[o]._return_tuple_field_name = io_name_of(func.params[i])
                /\ result.spec.outputs[o].name = Append(io_name_of(func.params[i]), "3")

----------------------------------------------------------------------------
(* The args template of the returned specification *)

Args == result.spec.args

SharedFlag == Literal(output_paths_flag)

SharedFlagPositions == {p \in DOMAIN Args : Args[p] = SharedFlag}

\* The outputs by passing style, in descriptor order
ReturnStyleOutputs == SelectSeq(result.spec.outputs, LAMBDA o : o._passing_style = None)
FileStyleOutputs == SelectSeq(result.spec.outputs, LAMBDA o : o._passing_style \in OutputStyles)

\* The flag and placeholder of a descriptor
FlagAndPlaceholder(d) ==
    <<Literal(<<"--">> \o d.name),
      [k |-> IF d._passing_style \in InputStyles THEN "InputPath"
             ELSE IF d._passing_style \in OutputStyles THEN "OutputPath"
             ELSE "InputValue",
       name |-> d.name, then_value |-> <<>>]>>

\* Where the pair stands unwrapped in args, and where wrapped in an IfThen
\* whose condition is IsPresent of the descriptor's name
UnwrappedAt(d) ==
    {p \in 1 .. Len(Args) - 1 : <<Args[p], Args[p + 1]>> = FlagAndPlaceholder(d)}
WrappedAt(d) ==
    {p \in DOMAIN Args : Args[p].k = "If" /\ Args[p].then_value = FlagAndPlaceholder(d)}
WrappedUnderOwnNameAt(d) == {p \in WrappedAt(d) : Args[p].name = d.name}

ParameterOf(d) == CHOOSE q \in DOMAIN func.params : func.params[q].name = d._parameter_name

HasDefault(d) == func.params[ParameterOf(d)].default # Empty

\* C2 as stated: whenever the shared multi-value output flag is emitted, it is
\* followed in args by exactly one OutputPath placeholder per return-style
\* output, in descriptor order, and by no placeholder of a file-style output.
C2_FlagFollowedByReturnOutputs ==
    Returned =>
        \A p \in SharedFlagPositions :
            SubSeq(Args, p + 1, Len(Args))
                = [i \in DOMAIN ReturnStyleOutputs |->
                     [k |-> "OutputPath", name |-> ReturnStyleOutputs[i].name,
                      then_value |-> <<>>]]

\* The position of the entry of input i, and of file-style output j, in args
InputEntryAt(i) ==
    LET d == result.spec.inputs[i] IN
    {p \in DOMAIN Args : /\ Args[p].k \in {"InputValue", "InputPath", "If"}
                         /\ Args[p].name = d.name}
FileOutputEntryAt(j) ==
    {p \in DOMAIN Args : /\ Args[p] = FlagAndPlaceholder(FileStyleOutputs[j])[2]
                         /\ \A q \in SharedFlagPositions : p < q}

\* C3: args lists the entries of the inputs in declaration order, then the
\* entries of the file-style outputs in declaration order, then, only if a
\* return-style output exists, the shared flag and its placeholders; no entry
\* of a later group precedes an entry of an earlier group.
C3_ArgsOrder ==
    Returned =>
        /\ \A i \in DOMAIN result.spec.inputs : Cardinality(InputEntryAt(i)) = 1
        /\ \A j \in DOMAIN FileStyleOutputs : Cardinality(FileOutputEntryAt(j)) = 1
        /\ \A i, h \in DOMAIN result.spec.inputs :
              i < h => \A p \in InputEntryAt(i), q \in InputEntryAt(h) : p < q
        /\ \A j, h \in DOMAIN FileStyleOutputs :
              j < h => \A p \in FileOutputEntryAt(j), q \in FileOutputEntryAt(h) : p < q
        /\ \A i \in DOMAIN result.spec.inputs, j \in DOMAIN FileStyleOutputs :
              \A p \in InputEntryAt(i), q \in FileOutputEntryAt(j) : p < q
        /\ \A i \in DOMAIN result.spec.inputs :
              \A p \in InputEntryAt(i), q \in SharedFlagPositions : p < q
        /\ Cardinality(SharedFlagPositions) = IF ReturnStyleOutputs # <<>> THEN 1 ELSE 0
        /\ \A q \in SharedFlagPositions :
              \A p \in q + 1 .. Len(Args) : Args[p].k = "OutputPath"
        /\ [i \in DOMAIN result.spec.inputs |-> func.params[ParameterOf(result.spec.inputs[i])].name]
              = [i \in DOMAIN result.spec.inputs |->
                    SelectSeq(func.params, LAMBDA q : ~IsOutputParameter(q))[i].name]
        /\ [j \in DOMAIN FileStyleOutputs |-> FileStyleOutputs[j]._parameter_name]
              = [j \in DOMAIN FileStyleOutputs |->
                    SelectSeq(func.params, LAMBDA q : IsOutputParameter(q))[j].name]

\* C3 witness: an output parameter declared before an input parameter, and a
\* return-style output: the input's entry, the output's entry, the block
C3_Witness ==
    /\ Returned
    /\ Len(func.params) = 2
    /\ IsOutputParameter(func.params[1])
    /\ ~IsOutputParameter(func.params[2])
    /\ ReturnStyleOutputs # <<>>
    /\ InputEntryAt(1) = {2}
    /\ FileOutputEntryAt(1) = {4}
    /\ SharedFlagPositions = {5}

\* C4: the flag+placeholder pair of an input or file-style output stands
\* unwrapped in args iff the parameter is required (has no default), and
\* otherwise stands exactly once, as the then-branch of an IfThen on
\* IsPresent of the same name; a callable with only required by-value
\* parameters yields one unwrapped flag+InputValue pair per parameter and no
\* IfThen; an IfThen never wraps an output or a file/stream-style input.
C4_RequiredIffUnwrapped ==
    Returned =>
        /\ \A i \in DOMAIN result.spec.inputs :
              LET d == result.spec.inputs[i] IN
              IF HasDefault(d)
              THEN /\ UnwrappedAt(d) = {}
                   /\ Cardinality(WrappedAt(d)) = 1
                   /\ WrappedUnderOwnNameAt(d) = WrappedAt(d)
                   /\ d._passing_style = None
              ELSE /\ Cardinality(UnwrappedAt(d)) = 1
                   /\ WrappedAt(d) = {}
        /\ \A j \in DOMAIN FileStyleOutputs :
              /\ Cardinality(UnwrappedAt(FileStyleOutputs[j])) = 1
              /\ WrappedAt(FileStyleOutputs[j]) = {}
        /\ \A p \in DOMAIN Args :
              Args[p].k = "If" =>
                  \E i \in DOMAIN result.spec.inputs :
                      /\ result.spec.inputs[i]._passing_style = None
                      /\ HasDefault(result.spec.inputs[i])
                      /\ p \in WrappedUnderOwnNameAt(result.spec.inputs[i])
        /\ (\A q \in DOMAIN func.params :
                func.params[q].marker = None /\ func.params[q].default = Empty)
              => /\ \A p \in DOMAIN Args : Args[p].k # "If"
                 /\ \A q \in DOMAIN func.params :
                       /\ Args[2 * q - 1] = Literal(<<"--">> \o result.spec.inputs[q].name)
                       /\ Args[2 * q] = [k |-> "InputValue", name |-> result.spec.inputs[q].name,
                                         then_value |-> <<>>]
                       /\ result.spec.inputs[q]._parameter_name = func.params[q].name

\* C4 witness: a required and an optional by-value parameter: one pair
\* unwrapped, the other inside an IfThen
C4_Witness ==
    /\ Returned
    /\ Len(result.spec.inputs) = 2
    /\ ~HasDefault(result.spec.inputs[1])
    /\ HasDefault(result.spec.inputs[2])
    /\ UnwrappedAt(result.spec.inputs[1]) = {1}
    /\ WrappedUnderOwnNameAt(result.spec.inputs[2]) = {3}

\* A parameter with a file/stream passing-style marker and a default value
FileParameterWithDefault(parameter) ==
    parameter.marker \in PassingStyles /\ parameter.default # Empty

\* C5: if a parameter annotated with one of the six passing-style markers
\* has a default value (None included), the compilation raises and returns no
\* specification; in a returned specification no file/stream-style descriptor
\* is optional or carries a default.
C5_FileDefaultRaises ==
    pc = "done" =>
        /\ (\E q \in DOMAIN func.params : FileParameterWithDefault(func.params[q]))
              => /\ result.raised = DefaultForFileError
                 /\ ~result.returned
                 /\ result.spec = NoSpec
        /\ result.returned =>
              \A i \in DOMAIN result.spec.inputs :
                  result.spec.inputs[i]._passing_style \in PassingStyles
                      => /\ ~result.spec.inputs[i].optional
                         /\ result.spec.inputs[i].default = None

\* C5 witness: the compilation of a callable whose second parameter is a
\* file-style parameter with the default None has raised
C5_Witness ==
    /\ pc = "done"
    /\ Len(func.params) = 2
    /\ ~FileParameterWithDefault(func.params[1])
    /\ func.params[2].marker \in PassingStyles
    /\ func.params[2].default = None
    /\ result.raised = DefaultForFileError

\* The parameters of func annotated with an output marker
OutputParameters == {q \in DOMAIN func.params : IsOutputParameter(func.params[q])}

\* The add_argument lines of the generated program that take several values
MultiValuedOptions ==
    {b \in DOMAIN result.spec.command.full_source :
        result.spec.command.full_source[b].nargs > 0}

\* C9: a callable with one parameter annotated by OutputPath (its only output
\* parameter) and no return annotation compiles to a specification with
\* exactly one output descriptor, of passing style OutputPath, whose args hold
\* that parameter's flag followed by an OutputPath placeholder and no shared
\* multi-value flag, and whose scaffold defines no multi-valued option.
C9_OutputPathOnly ==
    (/\ Returned
     /\ func.ret.kind \in {"empty", "None"}
     /\ \E q \in DOMAIN func.params :
           func.params[q].marker = OutputPath /\ OutputParameters = {q})
        => /\ Len(result.spec.outputs) = 1
           /\ result.spec.outputs[1]._passing_style = OutputPath
           /\ \A q \in OutputParameters :
                 result.spec.outputs[1]._parameter_name = func.params[q].name
           /\ \E p \in 1 .. Len(Args) - 1 :
                 /\ Args[p] = Literal(<<"--">> \o result.spec.outputs[1].name)
                 /\ Args[p + 1] = [k |-> "OutputPath", name |-> result.spec.outputs[1].name,
                                   then_value |-> <<>>]
           /\ SharedFlagPositions = {}
           /\ MultiValuedOptions = {}

\* C9 witness: such a callable, with an input parameter besides, was compiled
C9_Witness ==
    /\ Returned
    /\ func.ret.kind = "empty"
    /\ Len(func.params) = 2
    /\ func.params[2].marker = OutputPath
    /\ OutputParameters = {2}
    /\ Len(result.spec.outputs) = 1
    /\ Args[3] = Literal(<<"--">> \o result.spec.outputs[1].name)

\* The outputs made from the fields of a NamedTuple, and the single output
\* with the default label
FieldOutputs ==
    SelectSeq(result.spec.outputs, LAMBDA o : o._return_tuple_field_name # Absent)
SingleDefaultOutputs ==
    SelectSeq(result.spec.outputs,
              LAMBDA o : o._passing_style = None /\ o._return_tuple_field_name = Absent)

\* The names of the outputs that precede return-style output i
OutputNamesBeforeReturnOutput(i) ==
    {result.spec.outputs[h].name : h \in 1 .. Len(FileStyleOutputs) + i - 1}

\* C10: a return annotation with named fields yields exactly one return-style
\* output per field, in field order, named after its field (after collision
\* resolution against the output names already used) and carrying the field
\* name; they share a single occurrence of the multi-value flag; the single
\* default-label output is never emitted together with field-derived outputs.
C10_OneOutputPerField ==
    Returned =>
        /\ func.ret.kind = "tuple" =>
              /\ Len(ReturnStyleOutputs) = Len(func.ret.fields)
              /\ SubSeq(result.spec.outputs, Len(FileStyleOutputs) + 1,
                        Len(result.spec.outputs)) = ReturnStyleOutputs
              /\ \A i \in DOMAIN func.ret.fields :
                    /\ ReturnStyleOutputs[i]._return_tuple_field_name = func.ret.fields[i].name
                    /\ IF func.ret.fields[i].name \in OutputNamesBeforeReturnOutput(i)
                       THEN RenamedBySuffix(ReturnStyleOutputs[i].name, func.ret.fields[i].name,
                                            OutputNamesBeforeReturnOutput(i))
                       ELSE ReturnStyleOutputs[i].name = func.ret.fields[i].name
              /\ Cardinality(SharedFlagPositions) = IF func.ret.fields # <<>> THEN 1 ELSE 0
              /\ Cardinality(MultiValuedOptions) = IF func.ret.fields # <<>> THEN 1 ELSE 0
        /\ FieldOutputs = <<>> \/ SingleDefaultOutputs = <<>>

\* C10 witness: two fields, the first of which collides with the name of a
\* file-style output, made two return-style outputs behind one shared flag
C10_Witness ==
    /\ Returned
    /\ func.ret.kind = "tuple"
    /\ Len(func.ret.fields) = 2
    /\ Len(FileStyleOutputs) = 1
    /\ FileStyleOutputs[1].name = func.ret.fields[1].name
    /\ ReturnStyleOutputs[1].name = Append(func.ret.fields[1].name, "2")
    /\ ReturnStyleOutputs[2].name = func.ret.fields[2].name
    /\ Cardinality(SharedFlagPositions) = 1

----------------------------------------------------------------------------
(* The container image *)

ImagesConflict == base_image # None /\ func.image # None /\ base_image # func.image

\* C6: the compilation raises the image error exactly when a call-site image
\* is given, the callable carries an attached image, and the two differ;
\* otherwise, when either is given, it becomes the specification's image.
C6_ImageConflict ==
    pc = "done" =>
        /\ result.raised = ImageConflictError <=> ImagesConflict
        /\ ImagesConflict => ~result.returned
        /\ (result.returned /\ base_image # None) => result.spec.image = base_image
        /\ (result.returned /\ func.image # None) => result.spec.image = func.image

\* C6 witness: a compilation with an attached image and a different
\* call-site image has raised, none of the parameters being at fault
C6_Witness ==
    /\ pc = "done"
    /\ func.params = <<>>
    /\ func.image = "image-a"
    /\ base_image = "image-b"
    /\ result.raised = ImageConflictError

\* C7: a compilation with no call-site image and no attached image uses the
\* process-wide default last set (the value if plain, the result of calling
\* it, once, if a factory); a compilation with a call-site or attached image
\* does not evaluate the default; no compilation changes the default, so
\* get_default_base_image returns the last value set.
C7_DefaultImage ==
    [][/\ CompileCall =>
            /\ _default_base_image' = last_set
            /\ (base_image = None /\ func.image = None) =>
                  /\ result'.calls = IF last_set.callable THEN 1 ELSE 0
                  /\ result'.returned => result'.spec.image = last_set.value
            /\ (base_image # None \/ func.image # None) =>
                  /\ result'.calls = 0
                  /\ result'.returned => result'.spec.image \in {base_image, func.image}
       /\ get_default_base_image => got' = last_set
      ]_vars

\* C7 witness: after the default was set to a factory, a compilation with no
\* image of its own called the factory and used its result, and
\* get_default_base_image still returns the factory
C7_Witness ==
    /\ pc = "done"
    /\ base_image = None
    /\ func.image = None
    /\ result.returned
    /\ last_set = ImageFactory("image-f")
    /\ result.spec.image = "image-f"
    /\ result.calls = 1
    /\ got = ImageFactory("image-f")

----------------------------------------------------------------------------
(* Determinism *)

\* C8 as stated: compiling the same callable twice with identical options
\* yields the same generated program text and the same command and args; the
\* order in which the collected definitions are emitted does not depend on
\* the iteration order of a set.
C8_SameTextTwice ==
    pc = "done2" => result2 = result

----------------------------------------------------------------------------
(* The flags of the parameters *)

\* The descriptors that get an option of their own: the inputs, then the
\* file-style outputs
ParameterDescriptors == result.spec.inputs \o FileStyleOutputs

\* The option definitions of the scaffold that take one value
SingleValuedOptions ==
    {b \in DOMAIN result.spec.command.full_source :
        /\ result.spec.command.full_source[b].block = "add_argument"
        /\ result.spec.command.full_source[b].nargs = 0}

\* C17 as stated: in every returned specification the per-parameter flags are
\* pairwise distinct across args and across the scaffold, whether of two
\* inputs, two file-style outputs or an input and a file-style output, and
\* none of them is the shared multi-value output flag.
C17_FlagsDistinct ==
    Returned =>
        /\ \A i, j \in DOMAIN ParameterDescriptors :
              i # j => FlagAndPlaceholder(ParameterDescriptors[i])[1]
                          # FlagAndPlaceholder(ParameterDescriptors[j])[1]
        /\ \A i \in DOMAIN ParameterDescriptors :
              FlagAndPlaceholder(ParameterDescriptors[i])[1] # SharedFlag
        /\ \A b, c \in SingleValuedOptions :
              b # c => result.spec.command.full_source[b].flag
                          # result.spec.command.full_source[c].flag
        /\ \A b \in SingleValuedOptions :
              result.spec.command.full_source[b].flag # output_paths_flag
        /\ Cardinality(SingleValuedOptions) = Len(ParameterDescriptors)

\* The placeholders that follow the shared flag at position p of args
PlaceholdersAfter(p) ==
    {q \in p + 1 .. Len(Args) : Args[q].k = "OutputPath"}

\* C18: whenever the shared multi-value output flag is emitted, the scaffold
\* has one multi-valued option, its flag is the shared flag, and its nargs is
\* the number of OutputPath placeholders that follow the shared flag in args,
\* which are all that follows it; without the shared flag there is no
\* multi-valued option.
C18_NargsIsPlaceholderCount ==
    Returned =>
        /\ SharedFlagPositions = {} <=> MultiValuedOptions = {}
        /\ \A p \in SharedFlagPositions :
              /\ Cardinality(MultiValuedOptions) = 1
              /\ Cardinality(PlaceholdersAfter(p)) = Len(Args) - p
              /\ \A b \in MultiValuedOptions :
                    /\ result.spec.command.full_source[b].flag = output_paths_flag
                    /\ result.spec.command.full_source[b].nargs
                          = Cardinality(PlaceholdersAfter(p))

\* C18 witness: a file-style and a return-style output, the shared flag
\* followed by two placeholders and the multi-valued option taking two values
C18_Witness ==
    /\ Returned
    /\ Len(FileStyleOutputs) = 1
    /\ Len(ReturnStyleOutputs) = 1
    /\ \E p \in SharedFlagPositions : Cardinality(PlaceholdersAfter(p)) = 2
    /\ \E b \in MultiValuedOptions : result.spec.command.full_source[b].nargs = 2

----------------------------------------------------------------------------
(* The derived names *)

LastToken(name) == name[Len(name)]

\* The name of a parameter with the suffixes the claim names removed
DerivedName(parameter) ==
    LET name == parameter.name
        path_removed ==
            IF /\ parameter.marker \in {InputPath, OutputPath}
               /\ Len(name) > 1 /\ LastToken(name) = "path"
            THEN SubSeq(name, 1, Len(name) - 1) ELSE name
    IN  IF /\ parameter.marker \in PassingStyles
           /\ Len(path_removed) > 1 /\ LastToken(path_removed) = "file"
        THEN SubSeq(path_removed, 1, Len(path_removed) - 1) ELSE path_removed

\* The option definitions of the scaffold whose dest is the name of parameter q
OptionsOfParameter(q) ==
    {b \in DOMAIN result.spec.command.full_source :
        /\ result.spec.command.full_source[b].block = "add_argument"
        /\ result.spec.command.full_source[b].dest = func.params[q].name}

\* C15: the name of a parameter's descriptor is its name with a trailing
\* "_path" removed only under InputPath or OutputPath, then a trailing "_file"
\* removed under any of the six markers (made unique by the suffixing rule if
\* it is taken); the name of a by-value parameter is never stripped; each
\* suffix is removed at most once; and the dest of the parameter's option
\* definition is the original parameter name, its flag the derived name.
C15_SuffixesStripped ==
    Returned =>
        \A q \in DOMAIN func.params :
            LET parameter == func.params[q] IN
            /\ IF DerivedName(parameter) \in NamesBefore(q)
               THEN RenamedBySuffix(DescriptorName(q), DerivedName(parameter), NamesBefore(q))
               ELSE DescriptorName(q) = DerivedName(parameter)
            /\ parameter.marker = None => DerivedName(parameter) = parameter.name
            /\ (parameter.marker \in {InputPath, OutputPath}
                  /\ parameter.name = <<"x", "file", "path">>)
                  => DerivedName(parameter) = <<"x">>
            /\ (parameter.marker \in PassingStyles \ {InputPath, OutputPath}
                  /\ parameter.name = <<"x", "path">>)
                  => DerivedName(parameter) = <<"x", "path">>
            /\ parameter.name = <<"x", "path", "path">>
                  => DerivedName(parameter) \in {<<"x", "path">>, <<"x", "path", "path">>}
            /\ parameter.name = <<"x", "file", "file">>
                  => DerivedName(parameter) \in {<<"x", "file">>, <<"x", "file", "file">>}
            /\ Cardinality(OptionsOfParameter(q)) = 1
            /\ \A b \in OptionsOfParameter(q) :
                  /\ result.spec.command.full_source[b].dest = parameter.name
                  /\ result.spec.command.full_source[b].flag = <<"--">> \o DescriptorName(q)

\* C15 witness: x_file_path under OutputPath became x, and x_path under a
\* stream marker stayed x_path, the options keeping the parameter names
C15_Witness ==
    /\ Returned
    /\ Len(func.params) = 2
    /\ func.params[1].name = <<"x", "file", "path">>
    /\ func.params[1].marker = OutputPath
    /\ DescriptorName(1) = <<"x">>
    /\ func.params[2].name = <<"x", "path">>
    /\ func.params[2].marker = InputTextFile
    /\ DescriptorName(2) = <<"x", "path">>
    /\ \E b \in OptionsOfParameter(1) :
          result.spec.command.full_source[b].flag = <<"--", "x">>

----------------------------------------------------------------------------
(* The type names and the text of the generated program *)

\* The program of the returned specification and its serializer list
Program == result.spec.command.full_source
Serializers == _output_serializers(Program)

\* The descriptor made from parameter q of func
DescriptorOf(q) ==
    LET descriptors == IF IsOutputParameter(func.params[q])
                       THEN result.spec.outputs ELSE result.spec.inputs
    IN  descriptors[CHOOSE i \in DOMAIN descriptors :
                        descriptors[i]._parameter_name = func.params[q].name]

\* str(annotation)
StringForm(annotation) ==
    CASE annotation.kind = "type" -> "<class '" \o annotation.name \o "'>"
      [] annotation.kind = "forward" -> "ForwardRef('" \o annotation.name \o "')"
      [] OTHER -> annotation.name

InTable(annotation) ==
    annotation.kind = "type" /\ TypeKey(annotation.name) \in DOMAIN type_to_type_name

\* A string that is a key of the table is replaced by the canonical name
Canonical(type_name) ==
    IF StrKey(type_name) \in DOMAIN type_to_type_name
    THEN type_to_type_name[StrKey(type_name)] ELSE type_name

\* The four rules, a native type that is not in the table resolving to
\* unlisted_type_name
Resolved(annotation, unlisted_type_name) ==
    IF annotation.kind \in {"empty", "falsy"} THEN None
    ELSE IF InTable(annotation) THEN type_to_type_name[TypeKey(annotation.name)]
    ELSE IF annotation.kind = "forward" THEN Canonical(annotation.name)
    ELSE IF annotation.kind = "type" THEN Canonical(unlisted_type_name)
    ELSE Canonical(StringForm(annotation))

ResolvedAsStated(annotation) == Resolved(annotation, StringForm(annotation))
ResolvedByName(annotation) == Resolved(annotation, annotation.name)

\* No annotation makes the analysis raise
NoAnnotationRaises ==
    pc = "done" => (result.returned \/ result.raised = PicklingError)

\* The annotations to which the analysis applies the mapper: those of the
\* parameters, a return annotation that has no fields, and the fields of a
\* return annotation that has _field_types
AppliedAnnotations ==
    {func.params[q].type : q \in DOMAIN func.params}
    \cup (IF func.ret.kind = "single" THEN {func.ret.type} ELSE {})
    \cup (IF func.ret.kind = "tuple" /\ func.ret.has_field_types
          THEN {func.ret.fields[i].type : i \in DOMAIN func.ret.fields} ELSE {})

\* An annotation whose truth test, comparison or string conversion raises
Raising(annotation) == annotation.kind = "raising"

\* The analysis raises the exception of an annotation exactly when an
\* operation that the mapper applies to one of the annotations raises
RaisesOnlyWhatTheAnnotationRaises ==
    (pc = "done" /\ result.raised \notin {DefaultForFileError, ImageConflictError}) =>
        /\ result.returned \/ result.raised \in {PicklingError, AnnotationError}
        /\ result.raised = AnnotationError <=> \E a \in AppliedAnnotations : Raising(a)

PreFuncGroup == "pre_func_definition"
HelperGroup == "definition"
GroupOf(b) ==
    IF b.block \in {"scaffold", "add_argument", "add_argument_output_paths"}
    THEN "scaffold" ELSE b.block

\* The program lists the groups in this order (a group may be empty)
InGroupOrder(order) ==
    \A i, j \in DOMAIN Program :
        i < j => \E g, h \in DOMAIN order :
                    /\ g <= h
                    /\ order[g] = GroupOf(Program[i])
                    /\ order[h] = GroupOf(Program[j])

SupportBlocks == {i \in DOMAIN Program : GroupOf(Program[i]) \in {PreFuncGroup, HelperGroup}}

\* Each distinct support-definition block is in the text exactly once
EachSupportBlockOnce ==
    \A i, j \in SupportBlocks : Program[i].text = Program[j].text => i = j

\* The blocks a descriptor requests are in the text
RequestedBlocksPresent ==
    /\ \A i \in DOMAIN result.spec.inputs :
          LET d == result.spec.inputs[i] IN
          /\ d._passing_style # None =>
                \E b \in SupportBlocks : Program[b].text = "class " \o d._passing_style
          /\ (d._passing_style = None /\ d.type \in {"JsonArray", "JsonObject"}) =>
                \E b \in SupportBlocks : Program[b].text = "import json"
          /\ (d._passing_style = None /\ d.type = "Boolean") =>
                \E b \in SupportBlocks : Program[b].text = "def _deserialize_bool"
    /\ \A j \in DOMAIN FileStyleOutputs :
          /\ \E b \in SupportBlocks :
                Program[b].text = "class " \o FileStyleOutputs[j]._passing_style
          /\ FileStyleOutputs[j]._passing_style = OutputPath =>
                \E b \in SupportBlocks :
                    Program[b].text = "def _make_parent_dirs_and_return_path"
    /\ \A k \in DOMAIN ReturnStyleOutputs :
          ReturnStyleOutputs[k].type \in DOMAIN type_name_to_serializer =>
              \E b \in SupportBlocks :
                  Program[b].text = "def " \o type_name_to_serializer[ReturnStyleOutputs[k].type]

\* The preamble is in the text when one is given, and the callable's body is
PreambleAndBodyPresent ==
    /\ options.extra_code # "" =>
          Cardinality({i \in DOMAIN Program : Program[i].block = "extra_code"
                                               /\ Program[i].text = options.extra_code}) = 1
    /\ \E i \in DOMAIN Program : Program[i].block = "func_code"

\* C14 as stated: the text is all support-definition blocks (serializer and
\* deserializer helpers as well as the marker classes and path/stream
\* factories), then the preamble, then the callable body, then the scaffold,
\* the invocation, the serializer list and the epilogue; each distinct
\* support block is emitted exactly once.
C14_SupportBlocksFirst ==
    Returned =>
        /\ \A i \in DOMAIN Program : GroupOf(Program[i]) \in {PreFuncGroup, HelperGroup}
              => \A j \in DOMAIN Program :
                    Program[j].block \in {"extra_code", "func_code"} => i < j
        /\ InGroupOrder(<<PreFuncGroup, HelperGroup, PreFuncGroup, "extra_code", "func_code",
                          "scaffold", "invocation", "normalization", "output_serializers",
                          "epilogue">>)
        /\ EachSupportBlockOnce
        /\ RequestedBlocksPresent
        /\ PreambleAndBodyPresent

\* C14, amended: the text is the marker classes and path/stream factories,
\* then the preamble, then the callable body, then the serializer and
\* deserializer helpers, then the scaffold, the invocation, the
\* normalization, the serializer list and the epilogue; only the first group
\* precedes the preamble and the callable body, the helpers follow the body;
\* each distinct support block is emitted exactly once however many
\* parameters requested it.
C14_HelpersAfterBody ==
    Returned =>
        /\ InGroupOrder(<<PreFuncGroup, "extra_code", "func_code", HelperGroup,
                          "scaffold", "invocation", "normalization", "output_serializers",
                          "epilogue">>)
        /\ \A i \in DOMAIN Program :
              /\ GroupOf(Program[i]) = PreFuncGroup =>
                    Program[i].text \in {"class " \o style : style \in PassingStyles}
                        \cup {"def _make_parent_dirs_and_return_path",
                              "def _parent_dirs_maker_that_returns_open_file"}
              /\ GroupOf(Program[i]) = HelperGroup =>
                    Program[i].text \in {"import json", "def _deserialize_bool"}
                        \cup {"def " \o type_name_to_serializer[t] :
                                t \in DOMAIN type_name_to_serializer}
        /\ EachSupportBlockOnce
        /\ RequestedBlocksPresent
        /\ PreambleAndBodyPresent

\* C14 witness: two by-value list parameters requested the same helper; it
\* is in the text once, after the preamble and the callable body and before
\* the scaffold
C14_Witness ==
    /\ Returned
    /\ options.extra_code # ""
    /\ Len(func.params) = 2
    /\ \A q \in DOMAIN func.params :
          func.params[q].marker = None /\ func.params[q].type = Annotation("type", "list")
    /\ func.ret.kind = "empty"
    /\ Program[1].block = "extra_code"
    /\ Program[2].block = "func_code"
    /\ Program[3] = Block(HelperGroup, "import json")
    /\ Program[4].block = "scaffold"

----------------------------------------------------------------------------
(* The process state around the capture *)

\* The modules the capture is asked to remove from sys.modules
ListedModules ==
    IF options.modules_to_capture.is_none THEN {func.__module__}
    ELSE {options.modules_to_capture.names[i] : i \in DOMAIN options.modules_to_capture.names}

\* The compilation reaches _capture_function_code_using_cloudpickle
CaptureCall ==
    /\ CompileCall
    /\ options.use_code_pickling
    /\ result'.raised \notin {DefaultForFileError, AnnotationError, ImageConflictError}

\* C19 as stated: whether cloudpickle.dumps succeeds or raises, every listed
\* module that was loaded is in sys.modules again, mapped to the same module
\* object; a module that was not loaded beforehand is not added by the restore
\* step; and a __signature__ attribute that the callable had on entry is
\* present again with the same value.
C19_ProcessStateRestored ==
    [][CaptureCall =>
          /\ \A m \in ListedModules :
                sys_modules[m] # NotLoaded => sys_modules'[m] = sys_modules[m]
          /\ \A m \in Modules :
                sys_modules[m] = NotLoaded => sys_modules'[m] \in {NotLoaded, ImportedModule}
          /\ func.__signature__ # NoAttribute => func'.__signature__ = func.__signature__
      ]_vars

----------------------------------------------------------------------------
(* The run of the generated program *)

Ran == pc = "ran"

\* The interpreter that pickled the callable and the one that runs the loader
Pickler == sys_version_info
Current == run.current_python_version

PreThreeSix(version) ==
    version.major < 3 \/ (version.major = 3 /\ version.minor < 6)

AcrossBoundary == Current.major # Pickler.major \/ PreThreeSix(Current) # PreThreeSix(Pickler)

\* C11 as stated: the loader fails fatally exactly when the major versions
\* differ or one side is pre-3.6 and the other is not; for every other pair
\* of versions that differ it only warns and binds the callable.
C11_FatalOnlyAcrossBoundary ==
    (Ran /\ options.use_code_pickling) =>
        /\ run.raised = RuntimeError <=> AcrossBoundary
        /\ (Current # Pickler /\ ~AcrossBoundary) =>
              run.raised = None /\ run.warned /\ run.bound

\* C11, amended: the loader fails fatally exactly when the major versions
\* differ, or the running interpreter's minor version is lower than the
\* pickling one's, or one side is pre-3.6 and the other is not, and then binds
\* nothing; for every other pair of versions it binds the callable, with a
\* warning exactly when the two version tuples differ.
C11_FatalOrWarning ==
    (Ran /\ options.use_code_pickling) =>
        /\ run.raised = RuntimeError
              <=> (AcrossBoundary \/ Current.minor < Pickler.minor)
        /\ run.raised = RuntimeError => ~run.bound /\ ~run.warned /\ ~run.called
        /\ run.raised # RuntimeError =>
              /\ run.raised = None
              /\ run.bound
              /\ run.called
              /\ run.warned <=> Current # Pickler

\* C11 witness: a callable pickled by 3.6 was loaded by 3.7: a warning, and
\* the callable was bound and called
C11_Witness ==
    /\ Ran
    /\ options.use_code_pickling
    /\ Pickler.major = 3 /\ Pickler.minor = 6
    /\ Current.major = 3 /\ Current.minor = 7
    /\ run.raised = None
    /\ run.warned
    /\ run.bound

\* The file at the destination of an output
FileOf(output) == run.files[output_path(output.name)]

\* C12 as stated: in a unit with exactly one return-style output (and no
\* file-style output), the value encoded and written to the output's
\* destination is the whole return value, whether the callable returned a
\* scalar, a string or an indexable value.
C12_WholeValueWritten ==
    (Ran /\ run.called /\ Len(ReturnStyleOutputs) = 1 /\ FileStyleOutputs = <<>>
         /\ func.ret.kind = "single") =>
        /\ run.raised = None
        /\ FileOf(ReturnStyleOutputs[1])
              = File(get_serializer(ReturnStyleOutputs[1].type), run.returned)

\* The callable returned a value of the shape its return annotation names: a
\* tuple of one item per field, or a scalar or string
ReturnedAsAnnotated ==
    IF func.ret.kind = "tuple"
    THEN run.returned.kind = "tuple" /\ Len(run.returned.items) = Len(func.ret.fields)
    ELSE run.returned.kind \in {"int", "str"}

\* The output whose placeholder is the i-th value after the shared flag
OutputAfterFlag(i) ==
    LET o == CHOOSE h \in DOMAIN result.spec.outputs :
                output_path(result.spec.outputs[h].name) = run._output_files.items[i]
    IN  result.spec.outputs[o]

\* The value the callable returned for the k-th return-style output
ReturnValueOf(k) ==
    IF func.ret.kind = "tuple" THEN run.returned.items[k] ELSE run.returned

\* C13 as stated: the serializer list has the length of the list of
\* destination paths collected by the shared flag, and for every index i the
\* serializer at i is the encoder of the output whose placeholder is the i-th
\* value after the flag, that output is the i-th return-style output, and its
\* return value is what is written at its destination; also when file-style
\* outputs coexist with return-style outputs.
C13_SerializersAligned ==
    (Ran /\ run.called /\ ReturnedAsAnnotated) =>
        /\ Len(Serializers) = Len(run._output_files.items)
        /\ run.raised = None
        /\ \A i \in DOMAIN run._output_files.items :
              /\ i \in DOMAIN Serializers
              /\ Serializers[i] = get_serializer(OutputAfterFlag(i).type)
              /\ OutputAfterFlag(i) = ReturnStyleOutputs[i]
              /\ FileOf(OutputAfterFlag(i))
                    = File(get_serializer(OutputAfterFlag(i).type), ReturnValueOf(i))
        /\ \A j \in DOMAIN FileStyleOutputs : FileOf(FileStyleOutputs[j]) = WrittenByCallable

====
